---- MODULE Spec2Model ----
(***************************************************************************)
(* Model of the Agent Factory SDK state coordinator (src/src/sdk.ts,       *)
(* class AgentFactoryHandler) and of the remote API it talks to.           *)
(*                                                                         *)
(* JavaScript runs one synchronous segment at a time; a segment ends at an *)
(* await.  Every action below is one such segment: the start of a public   *)
(* method up to its first await, or the resumption of one suspended frame  *)
(* up to the next await.  A call is a stack of frames (the chain of async  *)
(* functions awaiting one another); rv is the completion travelling from a *)
(* finished callee to the frame that awaits it.                            *)
(***************************************************************************)
EXTENDS Integers, Sequences, FiniteSets, TLC

\* F(x), with x evaluated once
Apply(F(_), x) == CHOOSE y \in {F(v) : v \in {x}} : TRUE

\* ------------------------------------------------------------------ bounds
\* operations a caller performs in one behaviour
MaxOps == 2
\* a server response carries an action only while fewer chat cycles are nested
MaxDepth == 2
\* largest numeric selector a caller or the server passes
MaxSel == 3
\* calls made on a notifier in one behaviour
MaxCalls == 3
\* how deep a subscribed function publishes from inside a delivery
MaxNest == 1
\* listeners attached to a coordinator before it is used
MaxSubs == 2
\* messages appended by hand and calls declined in one behaviour
MaxEdits == 4

\* ------------------------------------------------------------ remote data
\* A reference inside a list of the API is a bare id or an object with an id
\* (sdk.ts 1022, 1035, 1088, 1100, 1153 handle both).
StrRef(i) == [isStr |-> TRUE, id |-> i]
ObjRef(i) == [isStr |-> FALSE, id |-> i]
RefId(ref) == ref.id

EmptyRec == <<>>
Has(r, k) == k \in DOMAIN r

AgentIds == {"A1", "A2"}
SessionIds == {"S1", "S2"}
TaskIds == {"T1", "T2"}

AgentDetail(a) ==
  IF a = "A1"
  THEN [id |-> "A1", name |-> "agent one", created_at |-> 0,
        updated_at |-> 0, sessions |-> <<StrRef("S1"), ObjRef("S2")>>]
  ELSE [id |-> a, name |-> "agent two", created_at |-> 0,
        updated_at |-> 0, sessions |-> <<>>]

SessionDetail(i) ==
  IF i = "S1"
  THEN [id |-> "S1", display_name |-> "Session One",
        tasks |-> <<ObjRef("T1"), StrRef("T2")>>]
  ELSE [id |-> i, display_name |-> "Session Two"]

TaskDetail(i) ==
  IF i = "T1"
  THEN [id |-> "T1", display_name |-> "Task One",
        skills |-> <<[id |-> "K1"], [id |-> "K2"]>>]
  ELSE [id |-> i, display_name |-> "", skills |-> <<>>]

\* ------------------------------------------------------------- selectors
\* string | number arguments of changeSession / changeTask
NumSel(n) == [isNum |-> TRUE, n |-> n, id |-> ""]
StrSel(i) == [isNum |-> FALSE, n |-> 0, id |-> i]
Nums == (0 - 1)..MaxSel
SessionSels == {NumSel(n) : n \in Nums} \cup {StrSel(i) : i \in SessionIds}
TaskSels == {NumSel(n) : n \in Nums} \cup {StrSel(i) : i \in TaskIds}

\* message texts are records, [t |-> "hello"], so that composed texts stay comparable
Text(x) == [t |-> x]

\* ---------------------------------------------------------- function calls
\* FunctionCall {name, args}; an absent argument is a field missing from args.
FC(name, args) == [name |-> name, args |-> args]
ServerActions ==
  { FC("switchTask", [task_id |-> StrSel("T2")]),
    FC("switchTask", [task_id |-> NumSel(1)]),
    FC("switchTask", EmptyRec),
    FC("switchSession", [sessionIndex |-> NumSel(2)]),
    FC("switchSession", [sessionIndex |-> NumSel(MaxSel)]),
    FC("switchSession", [sessionId |-> "S1"]),
    FC("switchSession", EmptyRec),
    FC("useSkill", [skillName |-> 1]),
    FC("useSkill", [skillName |-> 2, message |-> [t |-> "solve it"]]),
    FC("useSkill", EmptyRec),
    FC("openDoor", EmptyRec) }

VARIABLES agentState, conversationHistory,
          autoSwitchTask, autoUseSkill, autoSwitchSession,
          events, wrappers, invoked,
          stack, rv, published, requests, steps, ret, pre, nextId, now, ops

vars == <<agentState, conversationHistory, autoSwitchTask, autoUseSkill,
          autoSwitchSession, events, wrappers, invoked, stack, rv, published,
          requests, steps, ret, pre, nextId, now, ops>>

\* callers: Main everywhere, the second one only where calls overlap
Procs == {"main", "other"}
Main == "main"

\* --------------------------------------------------- one segment's state
\* What a synchronous segment of call p reads and writes, threaded through
\* the operators that model the methods.
\* em is the notifier the coordinator inherits: its listeners (events), the
\* wrappers once() has built so far (nw), the invocations of listeners (log),
\* how deep the running delivery is nested (nest), whether the last call threw
\* (raised) and what the last emit returned (result).  abort holds the state
\* at which an exception left emitEvent, if one did.
Cur(p) == [st |-> agentState, hist |-> conversationHistory, pub |-> published,
           req |-> requests, stack |-> stack[p], rv |-> rv[p], nid |-> nextId,
           em |-> [events |-> events, nw |-> wrappers, log |-> invoked,
                   nest |-> 0, raised |-> FALSE, result |-> FALSE],
           tr |-> steps, abort |-> <<>>]

\* tr is the order of what the running operation has done: the n-th event
\* published, the n-th request issued, the n-th place of the history filled
Step(k, n) == [k |-> k, n |-> n]

NoRv == [k |-> "none"]
Returned(v) == [k |-> "ret", v |-> v]
Thrown(e) == [k |-> "throw", e |-> e]
Void == [void |-> TRUE]

Push(s, f) == [s EXCEPT !.stack = Append(@, f)]
Pop(s) == [s EXCEPT !.stack = SubSeq(@, 1, Len(@) - 1)]
Top(s) == s.stack[Len(s.stack)]
SetTop(s, f) == [s EXCEPT !.stack[Len(s.stack)] = f]
SetPc(s, pc) == [s EXCEPT !.stack[Len(s.stack)].pc = pc]
Resolve(s, v) == [s EXCEPT !.rv = Returned(v)]
Reject(s, e) == [s EXCEPT !.rv = Thrown(e)]
Await(s) == [s EXCEPT !.rv = NoRv]

\* the errors the code throws, named as the specification names them
TransportError == [kind |-> "TransportError"]
SelectionError(why) == [kind |-> "SelectionError", why |-> why]
MissingArgument(what) == [kind |-> "MissingArgument", what |-> what]
UnknownFunctionCall(name) == [kind |-> "UnknownFunctionCall", name |-> name]
\* what a subscribed function threw
ListenerError == [kind |-> "ListenerError"]

\* JavaScript array access a[i]: 0-based, undefined outside the array
JsDefined(a, i) == i \in 0..(Len(a) - 1)
JsAt(a, i) == a[i + 1]

\* object spread {...a, ...b}
Spread(a, b) ==
  [k \in DOMAIN a \cup DOMAIN b |-> IF k \in DOMAIN b THEN b[k] ELSE a[k]]

\* ------------------------------------------- notifier (events.ts 11-109)
\* What subscribed functions do when they are invoked.  The functions are the
\* caller's; each is named by its behaviour:
\*   quiet      returns
\*   thrower    throws
\*   remover    unsubscribes the quiet function from the event being delivered
\*   clearer    removes all listeners of the event being delivered
\*   adder      subscribes the quiet function to the event being delivered
\*   onceAdder  subscribes the quiet function once to the event being delivered
\*   publisher  publishes the event again, unless it already runs nested
\*              MaxNest deep
Handlers ==
  {"quiet", "thrower", "remover", "clearer", "adder", "onceAdder", "publisher"}

\* a function handed to on()/off(), and the k-th wrapper once() has built
\* around one (every call of once() builds a new function)
Listener(h) == [h |-> h, once |-> 0]
OnceWrapper(h, k) == [h |-> h, once |-> k]

\* removeAllListeners() without an event
NoEvent == ""

\* on (17-23)
EmitterOn(em, event, listener) ==
  LET map == em.events IN
  [em EXCEPT !.events =
     [e \in DOMAIN map \cup {event} |->
        IF e = event
        THEN (IF event \in DOMAIN map THEN Append(map[event], listener)
              ELSE <<listener>>)
        ELSE map[e]]]

\* once (28-34): subscribes a new wrapper
EmitterOnce(em, event, h) ==
  EmitterOn([em EXCEPT !.nw = @ + 1], event, OnceWrapper(h, em.nw))

\* delete this.events[event]
DeleteKey(map, event) == [e \in DOMAIN map \ {event} |-> map[e]]

\* Array.prototype.indexOf, as an index from 1; 0 when absent
IndexOf(a, x) ==
  IF \E i \in 1..Len(a) : a[i] = x
  THEN CHOOSE i \in 1..Len(a) : a[i] = x /\ \A j \in 1..(i - 1) : a[j] # x
  ELSE 0

\* splice(index, 1)
Splice(a, i) == SubSeq(a, 1, i - 1) \o SubSeq(a, i + 1, Len(a))

\* off (39-55)
EmitterOff(em, event, listener) ==
  IF event \notin DOMAIN em.events
  THEN em
  ELSE LET index == IndexOf(em.events[event], listener)
           kept == IF index > 0 THEN Splice(em.events[event], index)
                   ELSE em.events[event]
       IN [em EXCEPT !.events = IF Len(kept) = 0 THEN DeleteKey(@, event)
                                 ELSE [@ EXCEPT ![event] = kept]]

\* removeAllListeners (60-67)
EmitterRemoveAllListeners(em, event) ==
  [em EXCEPT !.events = IF event # NoEvent THEN DeleteKey(@, event) ELSE <<>>]

RECURSIVE EmitterEmit(_, _, _)
RECURSIVE Handle(_, _, _, _)
RECURSIVE Invoke(_, _, _, _)
RECURSIVE DeliverUncaught(_, _, _, _, _)
RECURSIVE DeliverLive(_, _, _, _, _)
RECURSIVE Deliver(_, _, _, _, _)

\* the body of a subscribed function
Handle(em, event, payload, h) ==
  CASE h = "quiet" -> em
    [] h = "thrower" -> [em EXCEPT !.raised = TRUE]
    [] h = "remover" -> EmitterOff(em, event, Listener("quiet"))
    [] h = "clearer" -> EmitterRemoveAllListeners(em, event)
    [] h = "adder" -> EmitterOn(em, event, Listener("quiet"))
    [] h = "onceAdder" -> EmitterOnce(em, event, "quiet")
    [] h = "approver" -> em
    [] h = "publisher" ->
         IF em.nest < MaxNest
         THEN [EmitterEmit([em EXCEPT !.nest = @ + 1], event, payload)
                 EXCEPT !.nest = em.nest]
         ELSE em

\* listener(...args) at line 80: the function runs; a wrapper of once() runs
\* its handler (30) and then, unless that threw, unsubscribes itself (31)
Invoke(em, event, payload, l) ==
  LET em1 == [em EXCEPT !.log = Append(@, [listener |-> l, event |-> event,
                                           payload |-> payload, nest |-> em.nest])]
      r == Handle(em1, event, payload, l.h)
  IN IF l.once = 0 \/ r.raised THEN r ELSE EmitterOff(r, event, l)

\* a variant of the loop without the try/catch: a throw ends the delivery
DeliverUncaught(em, event, payload, listeners, i) ==
  IF i > Len(listeners)
  THEN em
  ELSE LET r == Invoke(em, event, payload, listeners[i])
       IN IF r.raised THEN r
          ELSE DeliverUncaught(r, event, payload, listeners, i + 1)

\* a variant of the loop that reads the live list instead of the copy
DeliverLive(em, event, payload, listeners, i) ==
  LET live == IF event \in DOMAIN em.events THEN em.events[event] ELSE <<>> IN
  IF i > Len(live)
  THEN em
  ELSE LET r == Invoke(em, event, payload, live[i])
       IN DeliverLive([r EXCEPT !.raised = FALSE], event, payload, listeners, i + 1)

\* lines 78-84: forEach over the copy, every call in its own try/catch
Deliver(em, event, payload, listeners, i) ==
  IF i > Len(listeners)
  THEN em
  ELSE LET r == Invoke(em, event, payload, listeners[i])
       IN Deliver([r EXCEPT !.raised = FALSE], event, payload, listeners, i + 1)

\* a variant without the test of line 74
EmitterEmitAlways(em, event, payload) ==
  LET r == Deliver(em, event, payload,
                   IF event \in DOMAIN em.events THEN em.events[event] ELSE <<>>, 1)
  IN IF r.raised THEN r ELSE [r EXCEPT !.result = TRUE]

\* emit (72-87)
EmitterEmit(em, event, payload) ==
  IF event \notin DOMAIN em.events \/ Len(em.events[event]) = 0
  THEN [em EXCEPT !.result = FALSE]
  ELSE LET r == Deliver(em, event, payload, em.events[event], 1)
       IN IF r.raised THEN r ELSE [r EXCEPT !.result = TRUE]

\* ------------------------------------------------------------- transport
\* emitEvent (sdk.ts 118-123): super.emit(event, data).  pub is the events
\* published by the running operation, in order.  Were emit to throw, the
\* exception would leave the method at this point (every catch in sdk.ts
\* throws what it caught again).
EmitOn(s, ev, em1) ==
  LET s1 == [s EXCEPT !.pub = Append(@, ev), !.em = [em1 EXCEPT !.raised = FALSE],
                      !.tr = Append(@, Step("event", Len(s.pub) + 1))]
  IN IF em1.raised THEN [s1 EXCEPT !.abort = <<s1>>] ELSE s1

Emit(seg, ev) ==
  Apply(LAMBDA s : IF s.abort # <<>> THEN s
                   ELSE Apply(LAMBDA em1 : EmitOn(s, ev, em1),
                              EmitterEmit(s.em, ev.name, ev)),
        seg)

\* a transport call issued; its response resumes the frame that awaits it
Request(seg, r) ==
  Apply(LAMBDA s : [s EXCEPT !.req = Append(@, r),
                             !.tr = Append(@, Step("request", Len(s.req) + 1))],
        seg)

\* this.conversationHistory.push(message)
PushMessage(seg, message) ==
  Apply(LAMBDA s : [s EXCEPT !.hist = Append(@, message),
                             !.tr = Append(@, Step("append", Len(s.hist) + 1))],
        seg)

\* await this.http...: the request is issued and frame f waits for the answer
\* (rq: which request of the log it waits for)
Suspend(s, r, f) == Push(Request(s, r), Spread(f, [rq |-> Len(s.req) + 1]))

\* the same from a frame already on the stack
Resuspend(s, r, f) == SetTop(Request(s, r), Spread(f, [rq |-> Len(s.req) + 1]))

\* the answer to the request the top frame waits for, noted in the log with
\* its place among the answers (at)
Answered(s, resp) ==
  LET at == Cardinality({i \in 1..Len(s.req) : Has(s.req[i], "resp")}) + 1
  IN [s EXCEPT !.req[Top(s).rq] = Spread(@, [resp |-> resp, at |-> at])]

\* The responses of the API to a GET of a session or a task: a rejection
\* (network failure, non-2xx), or the record the server holds under that id.
SessionResponses(i) ==
  {[ok |-> FALSE]} \cup
  (IF i \in SessionIds THEN {[ok |-> TRUE, data |-> SessionDetail(i)]} ELSE {})
TaskResponses(i) ==
  {[ok |-> FALSE]} \cup
  (IF i \in TaskIds THEN {[ok |-> TRUE, data |-> TaskDetail(i)]} ELSE {})
AgentResponses(i) ==
  {[ok |-> FALSE]} \cup
  (IF i \in AgentIds THEN {[ok |-> TRUE, data |-> AgentDetail(i)]} ELSE {})

\* chat cycles (testChat, testSkill) nested in a call
ChatDepth(stk) ==
  Cardinality({i \in 1..Len(stk) : stk[i].fn \in {"testChat", "testSkill"}})

\* The responses to a POST of a chat or skill message: a rejection, a reply
\* (with or without message text), or a reply carrying an action.
ChatResponses(stk) ==
  {[ok |-> FALSE],
   [ok |-> TRUE, data |-> [message |-> Text("reply"), notes |-> ""]]} \cup
  (IF ChatDepth(stk) < MaxDepth
   THEN {[ok |-> TRUE, data |-> [message |-> Text(""), notes |-> "", action |-> a]] :
           a \in ServerActions}
   ELSE {})

\* ------------------------------------------------- changeTask (1127-1173)
\* the synchronous part up to the GET
EnterChangeTask(s, taskId) ==
  LET oldTaskId == s.st.task_id
      tasks == s.st.session_details.tasks
      get(actualTaskId) ==
        Suspend(s, [verb |-> "GET", path |-> "/v2/agents/tasks", id |-> actualTaskId],
             [fn |-> "changeTask", pc |-> "get", actualTaskId |-> actualTaskId,
              oldTaskId |-> oldTaskId])
  IN IF ~taskId.isNum
     THEN get(taskId.id)
     ELSE IF ~Has(s.st.session_details, "tasks") \/ Len(tasks) = 0
     THEN Reject(s, SelectionError("No tasks available in current session"))
     ELSE IF taskId.n > Len(tasks)
     THEN Reject(s, SelectionError("Task index is out of range"))
     ELSE IF ~JsDefined(tasks, taskId.n)
     THEN Reject(s, SelectionError("Task at index not found"))
     ELSE get(RefId(JsAt(tasks, taskId.n)))

\* the GET has answered
ChangeTaskResume(s, resp) ==
  LET f == Top(s) IN
  IF ~resp.ok
  THEN Reject(Pop(s), TransportError)
  ELSE LET st1 == [s.st EXCEPT !.task_id = f.actualTaskId, !.task_details = resp.data]
           base == [name |-> "taskSwitched", newTaskId |-> f.actualTaskId, agentState |-> st1]
           eventData == IF f.oldTaskId # ""
                        THEN Spread(base, [oldTaskId |-> f.oldTaskId])
                        ELSE base
       IN Resolve(Pop(Emit([s EXCEPT !.st = st1], eventData)), Void)

\* a variant that resolves the index as changeTask does: 0-based, checked
\* against the upper end only
EnterChangeSessionZeroBased(s, sessionId) ==
  LET oldSessionId == s.st.session_id
      sessions == s.st.agent_details.sessions
      get(actualSessionId) ==
        Suspend(s, [verb |-> "GET", path |-> "/v2/agents/sessions", id |-> actualSessionId],
             [fn |-> "changeSession", pc |-> "getSession",
              actualSessionId |-> actualSessionId, oldSessionId |-> oldSessionId])
  IN IF ~sessionId.isNum
     THEN get(sessionId.id)
     ELSE IF ~Has(s.st.agent_details, "sessions") \/ Len(sessions) = 0
     THEN Reject(s, SelectionError("No sessions available in agent state"))
     ELSE IF sessionId.n > Len(sessions)
     THEN Reject(s, SelectionError("Session index is out of range"))
     ELSE IF ~JsDefined(sessions, sessionId.n)
     THEN Reject(s, SelectionError("Session at index not found"))
     ELSE get(RefId(JsAt(sessions, sessionId.n)))

\* ---------------------------------------------- changeSession (1062-1122)
EnterChangeSession(s, sessionId) ==
  LET oldSessionId == s.st.session_id
      sessions == s.st.agent_details.sessions
      get(actualSessionId) ==
        Suspend(s, [verb |-> "GET", path |-> "/v2/agents/sessions", id |-> actualSessionId],
             [fn |-> "changeSession", pc |-> "getSession",
              actualSessionId |-> actualSessionId, oldSessionId |-> oldSessionId])
  IN IF ~sessionId.isNum
     THEN get(sessionId.id)
     ELSE IF ~Has(s.st.agent_details, "sessions") \/ Len(sessions) = 0
     THEN Reject(s, SelectionError("No sessions available in agent state"))
     ELSE IF sessionId.n < 1 \/ sessionId.n > Len(sessions)
     THEN Reject(s, SelectionError("Session index is out of range"))
     ELSE IF ~JsDefined(sessions, sessionId.n - 1)
     THEN Reject(s, SelectionError("Session at index not found"))
     ELSE get(RefId(JsAt(sessions, sessionId.n - 1)))

\* a variant that starts the new session with an empty history
ChangeSessionFinishReset(s) ==
  LET f == Top(s)
      base == [name |-> "sessionSwitched", newSessionId |-> f.actualSessionId,
               agentState |-> s.st]
      eventData == IF f.oldSessionId # ""
                   THEN Spread(base, [oldSessionId |-> f.oldSessionId])
                   ELSE base
  IN Resolve(Pop(Emit([s EXCEPT !.hist = <<>>], eventData)), Void)

\* lines 1109-1121: the sessionSwitched event and the return
ChangeSessionFinish(s) ==
  LET f == Top(s)
      base == [name |-> "sessionSwitched", newSessionId |-> f.actualSessionId,
               agentState |-> s.st]
      eventData == IF f.oldSessionId # ""
                   THEN Spread(base, [oldSessionId |-> f.oldSessionId])
                   ELSE base
  IN Resolve(Pop(Emit(s, eventData)), Void)

\* a variant that deselects the task when the new session has none
ChangeSessionResumeClear(s, resp) ==
  LET f == Top(s) IN
  IF ~resp.ok
  THEN Reject(Pop(s), TransportError)
  ELSE LET sessionDetails == resp.data
           s1 == [s EXCEPT !.st.session_id = f.actualSessionId,
                           !.st.session_details = sessionDetails]
       IN IF Has(sessionDetails, "tasks") /\ Len(sessionDetails.tasks) > 0
          THEN Resuspend(s1, [verb |-> "GET", path |-> "/v2/agents/tasks",
                              id |-> RefId(sessionDetails.tasks[1])],
                         Spread(f, [pc |-> "getTask",
                                    firstTaskId |-> RefId(sessionDetails.tasks[1])]))
          ELSE ChangeSessionFinish([s1 EXCEPT !.st.task_id = "",
                                              !.st.task_details = EmptyRec])

\* the GET of the session has answered (1091-1107)
ChangeSessionResume(s, resp) ==
  LET f == Top(s) IN
  IF ~resp.ok
  THEN Reject(Pop(s), TransportError)
  ELSE LET sessionDetails == resp.data
           s1 == [s EXCEPT !.st.session_id = f.actualSessionId,
                           !.st.session_details = sessionDetails]
       IN IF Has(sessionDetails, "tasks") /\ Len(sessionDetails.tasks) > 0
          THEN Resuspend(s1, [verb |-> "GET", path |-> "/v2/agents/tasks",
                              id |-> RefId(sessionDetails.tasks[1])],
                         Spread(f, [pc |-> "getTask",
                                    firstTaskId |-> RefId(sessionDetails.tasks[1])]))
          ELSE ChangeSessionFinish(s1)

\* a variant that fetches the first task and does not select it
ChangeSessionTaskResumeKeep(s, resp) ==
  IF ~resp.ok
  THEN Reject(Pop(s), TransportError)
  ELSE ChangeSessionFinish(s)

\* the GET of the session's first task has answered (1099-1107)
ChangeSessionTaskResume(s, resp) ==
  IF ~resp.ok
  THEN Reject(Pop(s), TransportError)
  ELSE ChangeSessionFinish([s EXCEPT !.st.task_id = resp.data.id,
                                     !.st.task_details = resp.data])

\* ------------------------------------------------- testChat (599-662)
\* a message as testChat and testSkill build it; call is the number of the
\* chat cycle that built it (not in the code: it tells two equal texts apart)
UserMessage(message, call) ==
  [role |-> "user", parts |-> <<[text |-> message]>>,
   meta |-> [timestamp |-> "time"], call |-> call]

\* processResponseWithFunctionCalls (752-770): response.message || JSON.stringify(response)
AssistantMessage(response, call) ==
  [role |-> "model",
   parts |-> <<[text |-> IF response.message # Text("")
                         THEN response.message
                         ELSE [t |-> "json", of |-> response]]>>,
   meta |-> [timestamp |-> "time"], call |-> call]

\* a variant that makes the user message durable when it is sent
EnterTestChatEager(s, message, history) ==
  LET userMessage == UserMessage(message, s.nid)
      s1 == Emit(PushMessage([s EXCEPT !.nid = @ + 1], userMessage),
                 [name |-> "messageSent", message |-> message, agentState |-> s.st])
  IN Suspend(s1, [verb |-> "POST", path |-> "/chat/test-chat",
                  message |-> message, history |-> Append(history, userMessage),
                  agentState |-> s.st],
             [fn |-> "testChat", pc |-> "post", message |-> message,
              userMessage |-> userMessage])

\* lines 603-626: up to the POST
EnterTestChat(s, message, history) ==
  LET userMessage == UserMessage(message, s.nid)
      requestHistory == Append(history, userMessage)
      s1 == Emit([s EXCEPT !.nid = @ + 1],
                 [name |-> "messageSent", message |-> message, agentState |-> s.st])
  IN Suspend(s1, [verb |-> "POST", path |-> "/chat/test-chat",
                  message |-> message, history |-> requestHistory,
                  agentState |-> s.st],
             [fn |-> "testChat", pc |-> "post", message |-> message,
              userMessage |-> userMessage])

\* a variant that reads the skill at the 0-based index skillName
EnterTestSkillZeroBased(s, message, skillName, history) ==
  LET userMessage == UserMessage(message, s.nid)
      skills == s.st.task_details.skills
      found == /\ Has(s.st.task_details, "skills")
               /\ JsDefined(skills, skillName)
      s1 == Emit([s EXCEPT !.nid = @ + 1],
                 IF found
                 THEN [name |-> "skillCalled", skillId |-> JsAt(skills, skillName).id,
                       message |-> message, agentState |-> s.st]
                 ELSE [name |-> "skillCalled", message |-> message, agentState |-> s.st])
      s2 == Emit(s1, [name |-> "messageSent", message |-> message, agentState |-> s.st])
  IN IF ~found
     THEN Reject(s2, SelectionError("Skill with index not found in current task"))
     ELSE Suspend(s2, [verb |-> "POST", path |-> "/chat/test-skill",
                       message |-> message, skillId |-> JsAt(skills, skillName).id,
                       history |-> Append(history, userMessage), agentState |-> s.st],
                  [fn |-> "testSkill", pc |-> "post", message |-> message,
                   userMessage |-> userMessage])

\* ------------------------------------------------- testSkill (667-747)
EnterTestSkill(s, message, skillName, history) ==
  LET userMessage == UserMessage(message, s.nid)
      requestHistory == Append(history, userMessage)
      skills == s.st.task_details.skills
      found == /\ Has(s.st.task_details, "skills")
               /\ JsDefined(skills, skillName - 1)
      s1 == Emit([s EXCEPT !.nid = @ + 1],
                 IF found
                 THEN [name |-> "skillCalled", skillId |-> JsAt(skills, skillName - 1).id,
                       message |-> message, agentState |-> s.st]
                 ELSE [name |-> "skillCalled", message |-> message, agentState |-> s.st])
      s2 == Emit(s1, [name |-> "messageSent", message |-> message, agentState |-> s.st])
  IN IF ~found
     THEN Reject(s2, SelectionError("Skill with index not found in current task"))
     ELSE Suspend(s2, [verb |-> "POST", path |-> "/chat/test-skill",
                       message |-> message,
                       skillId |-> JsAt(skills, skillName - 1).id,
                       history |-> requestHistory, agentState |-> s.st],
                  [fn |-> "testSkill", pc |-> "post", message |-> message,
                   userMessage |-> userMessage])

\* ------------------------------------- function-call dispatch (775-941)
\* sendFollowUpMessage (975-977): return await this.testChat(message)
EnterSendFollowUpMessage(s, message) ==
  EnterTestChat(Push(s, [fn |-> "sendFollowUpMessage", pc |-> "awaitTestChat"]),
                message, s.hist)

\* executeSwitchTask (892-905) up to the await of changeTask
EnterExecuteSwitchTask(s, args) ==
  IF Has(args, "task_id")
  THEN EnterChangeTask(Push(s, [fn |-> "executeSwitchTask", pc |-> "awaitChangeTask",
                                task_id |-> args.task_id]),
                       args.task_id)
  ELSE Reject(s, MissingArgument("task_id"))

\* `Switched to task ${task_details?.display_name || task_id}`
SwitchedToTask(st, task_id) ==
  IF Has(st.task_details, "display_name") /\ st.task_details.display_name # ""
  THEN [t |-> "Switched to task", name |-> st.task_details.display_name]
  ELSE [t |-> "Switched to task", sel |-> task_id]

\* a variant that reports the switch itself and sends no follow-up chat
ExecuteSwitchTaskResumeSilent(s) ==
  IF s.rv.k = "throw"
  THEN Pop(s)
  ELSE Resolve(Pop(s), [success |-> TRUE,
                        message |-> SwitchedToTask(s.st, Top(s).task_id)])

\* executeSwitchTask after changeTask: the follow-up chat is returned, not
\* awaited, so the frame is left and the follow-up's completion is its own
ExecuteSwitchTaskResume(s) ==
  IF s.rv.k = "throw"
  THEN Pop(s)
  ELSE EnterSendFollowUpMessage(Await(Pop(s)), SwitchedToTask(s.st, Top(s).task_id))

\* a variant that turns the 1-based index into a 0-based one before it calls
\* changeSession
EnterExecuteSwitchSessionShifted(s, args) ==
  IF Has(args, "sessionIndex")
  THEN EnterChangeSession(
         Push(s, [fn |-> "executeSwitchSession", pc |-> "awaitChangeSession",
                  result |-> [success |-> TRUE,
                              message |-> [t |-> "Switched to session at index",
                                           sel |-> args.sessionIndex]]]),
         [args.sessionIndex EXCEPT !.n = @ - 1])
  ELSE IF Has(args, "sessionId") /\ args.sessionId # ""
  THEN EnterChangeSession(
         Push(s, [fn |-> "executeSwitchSession", pc |-> "awaitChangeSession",
                  result |-> [success |-> TRUE,
                              message |-> [t |-> "Switched to session",
                                           id |-> args.sessionId]]]),
         StrSel(args.sessionId))
  ELSE Reject(s, MissingArgument("sessionIndex or sessionId"))

\* a variant that switches to the first session when no session is named
EnterExecuteSwitchSessionDefault(s, args) ==
  IF Has(args, "sessionIndex")
  THEN EnterChangeSession(
         Push(s, [fn |-> "executeSwitchSession", pc |-> "awaitChangeSession",
                  result |-> [success |-> TRUE,
                              message |-> [t |-> "Switched to session at index",
                                           sel |-> args.sessionIndex]]]),
         args.sessionIndex)
  ELSE IF Has(args, "sessionId") /\ args.sessionId # ""
  THEN EnterChangeSession(
         Push(s, [fn |-> "executeSwitchSession", pc |-> "awaitChangeSession",
                  result |-> [success |-> TRUE,
                              message |-> [t |-> "Switched to session",
                                           id |-> args.sessionId]]]),
         StrSel(args.sessionId))
  ELSE EnterChangeSession(
         Push(s, [fn |-> "executeSwitchSession", pc |-> "awaitChangeSession",
                  result |-> [success |-> TRUE,
                              message |-> [t |-> "Switched to session at index",
                                           sel |-> NumSel(1)]]]),
         NumSel(1))

\* executeSwitchSession (910-927) up to the await of changeSession
EnterExecuteSwitchSession(s, args) ==
  IF Has(args, "sessionIndex")
  THEN EnterChangeSession(
         Push(s, [fn |-> "executeSwitchSession", pc |-> "awaitChangeSession",
                  result |-> [success |-> TRUE,
                              message |-> [t |-> "Switched to session at index",
                                           sel |-> args.sessionIndex]]]),
         args.sessionIndex)
  ELSE IF Has(args, "sessionId") /\ args.sessionId # ""
  THEN EnterChangeSession(
         Push(s, [fn |-> "executeSwitchSession", pc |-> "awaitChangeSession",
                  result |-> [success |-> TRUE,
                              message |-> [t |-> "Switched to session",
                                           id |-> args.sessionId]]]),
         StrSel(args.sessionId))
  ELSE Reject(s, MissingArgument("sessionIndex or sessionId"))

ExecuteSwitchSessionResume(s) ==
  IF s.rv.k = "throw" THEN Pop(s) ELSE Resolve(Pop(s), Top(s).result)

\* executeUseSkill (932-941): !skillName holds for an absent and for a zero index
EnterExecuteUseSkill(s, args) ==
  IF ~Has(args, "skillName") \/ args.skillName = 0
  THEN Reject(s, MissingArgument("skillName"))
  ELSE EnterTestSkill(Push(s, [fn |-> "executeUseSkill", pc |-> "awaitTestSkill",
                               skillName |-> args.skillName]),
                      IF Has(args, "message") /\ args.message # Text("")
                      THEN args.message ELSE Text("Using skill"),
                      args.skillName, s.hist)

ExecuteUseSkillResume(s) ==
  IF s.rv.k = "throw"
  THEN Pop(s)
  ELSE Resolve(Pop(s), [success |-> TRUE,
                        message |-> [t |-> "Used skill", n |-> Top(s).skillName],
                        result |-> s.rv.v])

\* a variant in which switchSession reads the flag of switchTask
ShouldAutoExecuteMixed(functionCall) ==
  CASE functionCall.name = "switchTask" -> autoSwitchTask
    [] functionCall.name = "switchSession" -> autoSwitchTask
    [] functionCall.name = "useSkill" -> autoUseSkill
    [] OTHER -> FALSE

\* a variant that executes a call of any other name at once
ShouldAutoExecuteAny(functionCall) ==
  CASE functionCall.name = "switchTask" -> autoSwitchTask
    [] functionCall.name = "switchSession" -> autoSwitchSession
    [] functionCall.name = "useSkill" -> autoUseSkill
    [] OTHER -> TRUE

\* shouldAutoExecuteFunctionCall (804-815)
ShouldAutoExecuteFunctionCall(functionCall) ==
  CASE functionCall.name = "switchTask" -> autoSwitchTask
    [] functionCall.name = "switchSession" -> autoSwitchSession
    [] functionCall.name = "useSkill" -> autoUseSkill
    [] OTHER -> FALSE

\* approveFunctionCall (820-860) up to the await of the execute* method; an
\* error thrown before that await is caught, logged and thrown again
EnterApproveFunctionCall(s, functionCall) ==
  LET s1 == Emit(s, [name |-> "functionCallApproved", functionCall |-> functionCall,
                     agentState |-> s.st])
      s2 == Push(s1, [fn |-> "approveFunctionCall", pc |-> "awaitExecute",
                      functionCall |-> functionCall])
  IN CASE functionCall.name = "switchTask" ->
            EnterExecuteSwitchTask(s2, functionCall.args)
       [] functionCall.name = "switchSession" ->
            EnterExecuteSwitchSession(s2, functionCall.args)
       [] functionCall.name = "useSkill" ->
            EnterExecuteUseSkill(s2, functionCall.args)
       [] OTHER -> Reject(s1, UnknownFunctionCall(functionCall.name))

\* a variant that reports the execution whether or not it succeeded
ApproveFunctionCallResumeAlways(s) ==
  Pop(Emit(s, [name |-> "functionCallExecuted",
               functionCall |-> Top(s).functionCall,
               result |-> s.rv, agentState |-> s.st]))

\* lines 845-859: after the execute* method has settled
ApproveFunctionCallResume(s) ==
  IF s.rv.k = "throw"
  THEN Pop(s)
  ELSE Pop(Emit(s, [name |-> "functionCallExecuted",
                    functionCall |-> Top(s).functionCall,
                    result |-> s.rv.v, agentState |-> s.st]))

\* handleFunctionCall (775-799); no caller passes the message argument, so
\* the PENDING mark of lines 786-788 is never made
EnterHandleFunctionCall(s, functionCall) ==
  LET s1 == Emit(s, [name |-> "functionCallReceived", functionCall |-> functionCall,
                     agentState |-> s.st])
  IN IF ShouldAutoExecuteFunctionCall(functionCall)
     THEN EnterApproveFunctionCall(
            Push(s1, [fn |-> "handleFunctionCall", pc |-> "awaitApprove"]),
            functionCall)
     ELSE Resolve(s1, [functionCall |-> functionCall, requiresApproval |-> TRUE])

\* a frame that only hands its callee's completion on (return await ...)
PassOn(s) == Pop(s)

\* a variant that appends the user message whatever the POST answered
TestChatResumeKeep(s, resp) ==
  LET f == Top(s)
      s1 == PushMessage(s, f.userMessage)
  IN IF ~resp.ok
     THEN Reject(Pop(s1), TransportError)
     ELSE IF Has(resp.data, "action")
     THEN EnterHandleFunctionCall(SetPc(s1, "awaitHandle"), resp.data.action)
     ELSE Resolve(
            SetPc(PushMessage(s1, AssistantMessage(resp.data, f.userMessage.call)),
                  "awaitProcess"),
            resp.data)

\* a variant that appends the user message only with the model's reply
TestChatResumeLate(s, resp) ==
  LET f == Top(s) IN
  IF ~resp.ok
  THEN Reject(Pop(s), TransportError)
  ELSE IF Has(resp.data, "action")
  THEN EnterHandleFunctionCall(SetPc(s, "awaitHandle"), resp.data.action)
  ELSE Resolve(
         SetPc(PushMessage(PushMessage(s, f.userMessage),
                           AssistantMessage(resp.data, f.userMessage.call)),
               "awaitProcess"),
         resp.data)

\* a variant that appends the model's reply before the user message
TestChatResumeReplyFirst(s, resp) ==
  LET f == Top(s) IN
  IF ~resp.ok
  THEN Reject(Pop(s), TransportError)
  ELSE IF Has(resp.data, "action")
  THEN EnterHandleFunctionCall(SetPc(PushMessage(s, f.userMessage), "awaitHandle"),
                               resp.data.action)
  ELSE Resolve(
         SetPc(PushMessage(PushMessage(s, AssistantMessage(resp.data, f.userMessage.call)),
                           f.userMessage),
               "awaitProcess"),
         resp.data)

\* testChat, lines 628-642: the POST has answered
TestChatResume(s, resp) ==
  LET f == Top(s) IN
  IF ~resp.ok
  THEN Reject(Pop(s), TransportError)
  ELSE LET response == resp.data
           s1 == PushMessage(s, f.userMessage)
       IN IF Has(response, "action")
          THEN EnterHandleFunctionCall(SetPc(s1, "awaitHandle"), response.action)
          ELSE Resolve(
                 SetPc(PushMessage(s1, AssistantMessage(response, f.userMessage.call)),
                       "awaitProcess"),
                 response)

\* a variant that publishes the history update before the reply
TestChatSettleSwapped(s) ==
  IF s.rv.k = "throw" \/ Top(s).pc = "awaitHandle"
  THEN Pop(s)
  ELSE LET processedResponse == s.rv.v
           s1 == Emit(s, [name |-> "conversationHistoryUpdated",
                          history |-> s.hist, agentState |-> s.st])
           s2 == Emit(s1, [name |-> "messageReceived",
                           message |-> processedResponse.message,
                           response |-> processedResponse, agentState |-> s.st])
       IN Pop(s2)

\* testChat, lines 633-661: handleFunctionCall or processResponse has settled
TestChatSettle(s) ==
  IF s.rv.k = "throw" \/ Top(s).pc = "awaitHandle"
  THEN Pop(s)
  ELSE LET processedResponse == s.rv.v
           s1 == Emit(s, [name |-> "messageReceived",
                          message |-> processedResponse.message,
                          response |-> processedResponse, agentState |-> s.st])
           s2 == Emit(s1, [name |-> "conversationHistoryUpdated",
                           history |-> s.hist, agentState |-> s.st])
       IN Pop(s2)

\* testSkill, lines 706-727: the POST has answered
TestSkillResume(s, resp) ==
  LET f == Top(s) IN
  IF ~resp.ok
  THEN Reject(Pop(s), TransportError)
  ELSE LET response == resp.data
           s1 == PushMessage(s, f.userMessage)
       IN IF Has(response, "action")
          THEN EnterHandleFunctionCall(SetPc(s1, "awaitHandle"), response.action)
          ELSE Resolve(
                 SetPc(PushMessage(s1, AssistantMessage(response, f.userMessage.call)),
                       "awaitProcess"),
                 response)

\* a variant that reports the result of a dispatch like a reply
TestSkillSettleAll(s) ==
  IF s.rv.k = "throw"
  THEN Pop(s)
  ELSE LET processedResponse == s.rv.v
           s1 == Emit(s, [name |-> "messageReceived",
                          response |-> processedResponse, agentState |-> s.st])
           s2 == Emit(s1, [name |-> "conversationHistoryUpdated",
                           history |-> s.hist, agentState |-> s.st])
       IN Pop(s2)

\* testSkill, lines 718-746
TestSkillSettle(s) ==
  IF s.rv.k = "throw" \/ Top(s).pc = "awaitHandle"
  THEN Pop(s)
  ELSE LET processedResponse == s.rv.v
           s1 == Emit(s, [name |-> "messageReceived",
                          message |-> processedResponse.message,
                          response |-> processedResponse, agentState |-> s.st])
           s2 == Emit(s1, [name |-> "conversationHistoryUpdated",
                           history |-> s.hist, agentState |-> s.st])
       IN Pop(s2)

\* ------------------------------------ initializeAgentState (1008-1057)
EnterInitializeAgentState(s, agentId) ==
  Suspend([s EXCEPT !.st.agent_id = agentId],
          [verb |-> "GET", path |-> "/v2/agents/agent-details", id |-> agentId],
          [fn |-> "initializeAgentState", pc |-> "getAgent", agentId |-> agentId])

\* a variant whose catch throws again without publishing
InitializeFailSilent(s, error) == Reject(Pop(s), error)

\* lines 1049-1056: the catch
InitializeFail(s, error) ==
  Reject(Pop(Emit(s, [name |-> "agentStateInitializedError", error |-> error,
                      agentId |-> Top(s).agentId])),
         error)

\* lines 1045-1048
InitializeFinish(s) ==
  Resolve(Pop(Emit(s, [name |-> "agentStateInitialized", agentState |-> s.st])), Void)

\* lines 1014-1028: the agent's detail has answered
InitializeAgentResume(s, resp) ==
  IF ~resp.ok
  THEN InitializeFail(s, TransportError)
  ELSE LET agentDetails == resp.data
           s1 == [s EXCEPT !.st = Spread(s.st, agentDetails)]
       IN IF Has(agentDetails, "sessions") /\ Len(agentDetails.sessions) > 0
          THEN Resuspend(s1, [verb |-> "GET", path |-> "/v2/agents/sessions",
                              id |-> RefId(agentDetails.sessions[1])],
                         Spread(Top(s), [pc |-> "getSession",
                                         firstId |-> RefId(agentDetails.sessions[1])]))
          ELSE InitializeFinish(s1)

\* a variant that stops at the session and never fetches its first task
InitializeSessionResumeNoTask(s, resp) ==
  IF ~resp.ok
  THEN InitializeFail(s, TransportError)
  ELSE InitializeFinish([s EXCEPT !.st.session_id = resp.data.id,
                                  !.st.session_details = resp.data])

\* lines 1029-1039: the first session has answered
InitializeSessionResume(s, resp) ==
  IF ~resp.ok
  THEN InitializeFail(s, TransportError)
  ELSE LET firstSession == resp.data
           s1 == [s EXCEPT !.st.session_id = firstSession.id,
                           !.st.session_details = firstSession]
       IN IF Has(firstSession, "tasks") /\ Len(firstSession.tasks) > 0
          THEN Resuspend(s1, [verb |-> "GET", path |-> "/v2/agents/tasks",
                              id |-> RefId(firstSession.tasks[1])],
                         Spread(Top(s), [pc |-> "getTask",
                                         firstId |-> RefId(firstSession.tasks[1])]))
          ELSE InitializeFinish(s1)

\* a variant that fetches the first task and does not select it
InitializeTaskResumeKeep(s, resp) ==
  IF ~resp.ok
  THEN InitializeFail(s, TransportError)
  ELSE InitializeFinish(s)

\* a variant that deselects the first task when it is the selected one already
InitializeTaskResumeToggle(s, resp) ==
  IF ~resp.ok
  THEN InitializeFail(s, TransportError)
  ELSE IF s.st.task_id = resp.data.id
  THEN InitializeFinish([s EXCEPT !.st.task_id = "", !.st.task_details = EmptyRec])
  ELSE InitializeFinish([s EXCEPT !.st.task_id = resp.data.id,
                                  !.st.task_details = resp.data])

\* lines 1040-1043: the first task has answered
InitializeTaskResume(s, resp) ==
  IF ~resp.ok
  THEN InitializeFail(s, TransportError)
  ELSE InitializeFinish([s EXCEPT !.st.task_id = resp.data.id,
                                  !.st.task_details = resp.data])

\* ------------------------------------------------------------------ state
\* the constructor (46-79); the three flags come from its options
Init ==
  /\ agentState = [created_at |-> 1, updated_at |-> 1, agent_id |-> "",
                   agent_details |-> [system_instructions |-> "", role |-> "",
                                      tools |-> <<>>, sessions |-> <<>>, name |-> ""],
                   session_id |-> "", session_details |-> EmptyRec,
                   task_id |-> "", task_details |-> EmptyRec]
  /\ conversationHistory = <<>>
  /\ autoSwitchTask \in BOOLEAN
  /\ autoUseSkill \in BOOLEAN
  /\ autoSwitchSession \in BOOLEAN
  /\ events = <<>>
  /\ wrappers = 1
  /\ invoked = <<>>
  /\ stack = [p \in Procs |-> <<>>]
  /\ rv = [p \in Procs |-> NoRv]
  /\ published = <<>>
  /\ requests = <<>>
  /\ steps = <<>>
  /\ ret = [p \in Procs |-> NoRv]
  /\ pre = [p \in Procs |-> [op |-> [name |-> "new"]]]
  /\ nextId = 1
  /\ now = 1
  /\ ops = 0

Idle == \A p \in Procs : stack[p] = <<>>

\* a caller may start another operation
CanStart == Idle /\ ops < MaxOps

\* the state a new operation of caller p starts from: the logs of what the
\* operation publishes and requests start empty
Fresh(p) ==
  [Cur(p) EXCEPT !.pub = <<>>, !.req = <<>>, !.rv = NoRv, !.em.log = <<>>, !.tr = <<>>]

\* the segment's result becomes the state; a call whose last frame has
\* settled is complete and its completion is what the caller receives
Commit(p, seg) ==
  \E s \in {Apply(LAMBDA v : IF v.abort = <<>> THEN v
                            ELSE [v.abort[1] EXCEPT !.stack = <<>>,
                                                    !.rv = Thrown(ListenerError)],
                  seg)} :
  LET done == s.stack = <<>> /\ s.rv.k # "none" IN
  /\ agentState' = s.st
  /\ events' = s.em.events
  /\ wrappers' = s.em.nw
  /\ invoked' = s.em.log
  /\ conversationHistory' = s.hist
  /\ published' = s.pub
  /\ requests' = s.req
  /\ steps' = s.tr
  /\ nextId' = s.nid
  /\ stack' = [stack EXCEPT ![p] = s.stack]
  /\ rv' = [rv EXCEPT ![p] = IF done THEN NoRv ELSE s.rv]
  /\ ret' = [ret EXCEPT ![p] = IF done THEN s.rv ELSE NoRv]

\* an operation starts: what the state was is kept for the claims
Begin(p, op, s) ==
  /\ pre' = [pre EXCEPT ![p] = [op |-> op, st |-> agentState,
                                hist |-> conversationHistory, events |-> events]]
  /\ Commit(p, s)
  /\ ops' = ops + 1

\* ... of an asynchronous method, which leaves the flags and the clock alone
BeginCall(p, op, s) ==
  /\ Begin(p, op, s)
  /\ UNCHANGED <<autoSwitchTask, autoUseSkill, autoSwitchSession, now>>

\* a suspended call goes on
Continue(p, s) ==
  /\ Commit(p, s)
  /\ UNCHANGED <<pre, autoSwitchTask, autoUseSkill, autoSwitchSession, now, ops>>

AwaitsHttp(p, fn, pc) ==
  /\ stack[p] # <<>>
  /\ Top(Cur(p)).fn = fn
  /\ Top(Cur(p)).pc = pc
  /\ rv[p].k = "none"

AwaitsCallee(p, fn) ==
  /\ stack[p] # <<>>
  /\ Top(Cur(p)).fn = fn
  /\ rv[p].k # "none"

Messages == {Text("hello")}

\* ---------------------------------------------------------------- actions
TestChat(p) ==
  /\ CanStart
  /\ \E message \in Messages :
       BeginCall(p, [name |-> "testChat", message |-> message, call |-> nextId],
             EnterTestChat(Fresh(p), message, conversationHistory))

TestChatPost(p) ==
  /\ AwaitsHttp(p, "testChat", "post")
  /\ \E resp \in ChatResponses(stack[p]) : Continue(p, TestChatResume(Answered(Cur(p), resp), resp))

TestChatSettled(p) ==
  /\ AwaitsCallee(p, "testChat")
  /\ Continue(p, TestChatSettle(Cur(p)))

TestSkill(p) ==
  /\ CanStart
  /\ \E message \in Messages, skillName \in Nums :
       BeginCall(p, [name |-> "testSkill", message |-> message, skillName |-> skillName,
                 call |-> nextId],
             EnterTestSkill(Fresh(p), message, skillName, conversationHistory))

TestSkillPost(p) ==
  /\ AwaitsHttp(p, "testSkill", "post")
  /\ \E resp \in ChatResponses(stack[p]) : Continue(p, TestSkillResume(Answered(Cur(p), resp), resp))

TestSkillSettled(p) ==
  /\ AwaitsCallee(p, "testSkill")
  /\ Continue(p, TestSkillSettle(Cur(p)))

HandleFunctionCallSettled(p) ==
  /\ AwaitsCallee(p, "handleFunctionCall")
  /\ Continue(p, PassOn(Cur(p)))

ApproveFunctionCall(p) ==
  /\ CanStart
  /\ \E functionCall \in ServerActions :
       BeginCall(p, [name |-> "approveFunctionCall", functionCall |-> functionCall],
             EnterApproveFunctionCall(Fresh(p), functionCall))

ApproveFunctionCallSettled(p) ==
  /\ AwaitsCallee(p, "approveFunctionCall")
  /\ Continue(p, ApproveFunctionCallResume(Cur(p)))

ExecuteSwitchTaskSettled(p) ==
  /\ AwaitsCallee(p, "executeSwitchTask")
  /\ Continue(p, ExecuteSwitchTaskResume(Cur(p)))

ExecuteSwitchSessionSettled(p) ==
  /\ AwaitsCallee(p, "executeSwitchSession")
  /\ Continue(p, ExecuteSwitchSessionResume(Cur(p)))

ExecuteUseSkillSettled(p) ==
  /\ AwaitsCallee(p, "executeUseSkill")
  /\ Continue(p, ExecuteUseSkillResume(Cur(p)))

SendFollowUpMessageSettled(p) ==
  /\ AwaitsCallee(p, "sendFollowUpMessage")
  /\ Continue(p, PassOn(Cur(p)))

ChangeTask(p) ==
  /\ CanStart
  /\ \E taskId \in TaskSels :
       BeginCall(p, [name |-> "changeTask", taskId |-> taskId],
             EnterChangeTask(Fresh(p), taskId))

ChangeTaskGet(p) ==
  /\ AwaitsHttp(p, "changeTask", "get")
  /\ \E resp \in TaskResponses(Top(Cur(p)).actualTaskId) :
       Continue(p, ChangeTaskResume(Answered(Cur(p), resp), resp))

ChangeSession(p) ==
  /\ CanStart
  /\ \E sessionId \in SessionSels :
       BeginCall(p, [name |-> "changeSession", sessionId |-> sessionId],
             EnterChangeSession(Fresh(p), sessionId))

ChangeSessionGet(p) ==
  /\ AwaitsHttp(p, "changeSession", "getSession")
  /\ \E resp \in SessionResponses(Top(Cur(p)).actualSessionId) :
       Continue(p, ChangeSessionResume(Answered(Cur(p), resp), resp))

ChangeSessionGetTask(p) ==
  /\ AwaitsHttp(p, "changeSession", "getTask")
  /\ \E resp \in TaskResponses(Top(Cur(p)).firstTaskId) :
       Continue(p, ChangeSessionTaskResume(Answered(Cur(p), resp), resp))

InitializeAgentState(p) ==
  /\ CanStart
  /\ \E agentId \in AgentIds :
       BeginCall(p, [name |-> "initializeAgentState", agentId |-> agentId],
             EnterInitializeAgentState(Fresh(p), agentId))

InitializeGetAgent(p) ==
  /\ AwaitsHttp(p, "initializeAgentState", "getAgent")
  /\ \E resp \in AgentResponses(Top(Cur(p)).agentId) :
       Continue(p, InitializeAgentResume(Answered(Cur(p), resp), resp))

InitializeGetSession(p) ==
  /\ AwaitsHttp(p, "initializeAgentState", "getSession")
  /\ \E resp \in SessionResponses(Top(Cur(p)).firstId) :
       Continue(p, InitializeSessionResume(Answered(Cur(p), resp), resp))

InitializeGetTask(p) ==
  /\ AwaitsHttp(p, "initializeAgentState", "getTask")
  /\ \E resp \in TaskResponses(Top(Cur(p)).firstId) :
       Continue(p, InitializeTaskResume(Answered(Cur(p), resp), resp))

\* ------------------------------------------- synchronous operations
\* what callers patch into the state with updateAgentState
Updates ==
  { [agent_details |-> [name |-> "agent one",
                        sessions |-> <<StrRef("S1"), ObjRef("S2")>>]],
    [agent_details |-> [name |-> "no session list"]] }

\* updateAgentState (997-1003)
UpdateAgentStateResult(st, updates, date) ==
  Spread(Spread(st, updates), [updated_at |-> date])

UpdateAgentState(p) ==
  /\ CanStart
  /\ \E updates \in Updates :
       /\ Begin(p, [name |-> "updateAgentState", updates |-> updates],
                Resolve([Fresh(p) EXCEPT
                           !.st = UpdateAgentStateResult(agentState, updates, now + 1)],
                        Void))
       /\ now' = now + 1
       /\ UNCHANGED <<autoSwitchTask, autoUseSkill, autoSwitchSession>>

\* the public fields autoSwitchTask, autoUseSkill, autoSwitchSession (42-44)
SetAutoFlag(p) ==
  /\ CanStart
  /\ \E flag \in {"autoSwitchTask", "autoUseSkill", "autoSwitchSession"}, b \in BOOLEAN :
       /\ autoSwitchTask' = IF flag = "autoSwitchTask" THEN b ELSE autoSwitchTask
       /\ autoUseSkill' = IF flag = "autoUseSkill" THEN b ELSE autoUseSkill
       /\ autoSwitchSession' = IF flag = "autoSwitchSession" THEN b ELSE autoSwitchSession
       /\ Begin(p, [name |-> "setAutoFlag", flag |-> flag, value |-> b],
                Resolve(Fresh(p), Void))
       /\ UNCHANGED now

\* getConversationHistory (946-948): a copy of the array
GetConversationHistory == conversationHistory

\* a variant that publishes the notification and keeps the messages
ClearResultKeep(s) ==
  Emit(s, [name |-> "conversationHistoryUpdated", history |-> <<>>, agentState |-> s.st])

\* clearConversationHistory (953-959)
ClearResult(s) ==
  Emit([s EXCEPT !.hist = <<>>],
       [name |-> "conversationHistoryUpdated", history |-> <<>>, agentState |-> s.st])

ClearConversationHistory(p) ==
  /\ CanStart
  /\ Begin(p, [name |-> "clearConversationHistory"], Resolve(ClearResult(Fresh(p)), Void))
  /\ UNCHANGED <<autoSwitchTask, autoUseSkill, autoSwitchSession, now>>

\* messages a caller appends by hand: one with a function call and _meta,
\* one with a function call and no _meta
AddedMessages ==
  { [role |-> "model", parts |-> <<[functionCall |-> FC("switchTask", EmptyRec)]>>,
     meta |-> [timestamp |-> "time"], call |-> 0],
    [role |-> "model",
     parts |-> <<[text |-> Text("use it")], [functionCall |-> FC("useSkill", EmptyRec)]>>,
     call |-> 0] }

\* addMessageToHistory (964-970)
AddResult(s, message) ==
  LET hist1 == Append(s.hist, message) IN
  Emit(PushMessage(s, message),
       [name |-> "conversationHistoryUpdated", history |-> hist1, agentState |-> s.st])

AddMessageToHistory(p) ==
  /\ CanStart
  /\ \E message \in AddedMessages :
       Begin(p, [name |-> "addMessageToHistory", message |-> message],
             Resolve(AddResult(Fresh(p), message), Void))
  /\ UNCHANGED <<autoSwitchTask, autoUseSkill, autoSwitchSession, now>>

\* a variant that marks every message holding a function call, whatever its name
DeclinedMessageAnyCall(message, functionCall) ==
  IF /\ \E i \in 1..Len(message.parts) : Has(message.parts[i], "functionCall")
     /\ Has(message, "meta")
  THEN [message EXCEPT !.meta = Spread(@, [functionCallStatus |-> "DECLINED"])]
  ELSE message

\* declineFunctionCall (865-887)
DeclinedMessage(message, functionCall) ==
  IF /\ \E i \in 1..Len(message.parts) :
          /\ Has(message.parts[i], "functionCall")
          /\ message.parts[i].functionCall.name = functionCall.name
     /\ Has(message, "meta")
  THEN [message EXCEPT !.meta = Spread(@, [functionCallStatus |-> "DECLINED"])]
  ELSE message

\* a variant that stops at the first message that holds the call
DeclineResultFirst(s, functionCall) ==
  LET s1 == Emit(s, [name |-> "functionCallDeclined", functionCall |-> functionCall,
                     agentState |-> s.st])
      hits == {i \in 1..Len(s.hist) : DeclinedMessage(s.hist[i], functionCall) # s.hist[i]}
  IN [s1 EXCEPT !.hist = [i \in 1..Len(s.hist) |->
                            IF i \in hits /\ \A j \in hits : i <= j
                            THEN DeclinedMessage(s.hist[i], functionCall)
                            ELSE s.hist[i]]]

DeclineResult(s, functionCall) ==
  LET s1 == Emit(s, [name |-> "functionCallDeclined", functionCall |-> functionCall,
                     agentState |-> s.st])
  IN [s1 EXCEPT !.hist = [i \in 1..Len(s.hist) |-> DeclinedMessage(s.hist[i], functionCall)]]

DeclineFunctionCall(p) ==
  /\ CanStart
  /\ \E functionCall \in {FC("switchTask", EmptyRec), FC("useSkill", EmptyRec),
                           FC("openDoor", EmptyRec)} :
       Begin(p, [name |-> "declineFunctionCall", functionCall |-> functionCall],
             Resolve(DeclineResult(Fresh(p), functionCall), Void))
  /\ UNCHANGED <<autoSwitchTask, autoUseSkill, autoSwitchSession, now>>

Next ==
  \/ UpdateAgentState(Main) \/ SetAutoFlag(Main)
  \/ ClearConversationHistory(Main) \/ AddMessageToHistory(Main)
  \/ DeclineFunctionCall(Main)
  \/ TestChat(Main) \/ TestChatPost(Main) \/ TestChatSettled(Main)
  \/ TestSkill(Main) \/ TestSkillPost(Main) \/ TestSkillSettled(Main)
  \/ HandleFunctionCallSettled(Main)
  \/ ApproveFunctionCall(Main) \/ ApproveFunctionCallSettled(Main)
  \/ ExecuteSwitchTaskSettled(Main) \/ ExecuteSwitchSessionSettled(Main)
  \/ ExecuteUseSkillSettled(Main) \/ SendFollowUpMessageSettled(Main)
  \/ ChangeTask(Main) \/ ChangeTaskGet(Main)
  \/ ChangeSession(Main) \/ ChangeSessionGet(Main) \/ ChangeSessionGetTask(Main)
  \/ InitializeAgentState(Main) \/ InitializeGetAgent(Main)
  \/ InitializeGetSession(Main) \/ InitializeGetTask(Main)

Spec == Init /\ [][Next]_vars

\* ------------------------------------------------ calls on the notifier
\* UniversalEventEmitter used on its own: on, once, off, removeAllListeners
\* and emit are its public methods, called here with two event names; every
\* kind of function listens to the first, the quiet one to the second as well.
NotifierEvents == {"ping", "pong"}
Subscriptions ==
  {[event |-> "ping", h |-> h] : h \in Handlers} \cup {[event |-> "pong", h |-> "quiet"]}
Payloads == {[n |-> 1]}

CanCall == Idle /\ ops < MaxCalls

\* the state a call on the notifier starts from: the log of invocations goes
\* on from call to call
Called(p) == [Fresh(p) EXCEPT !.em.log = invoked]

\* a call that touches nothing but the notifier
NotifierCall(p, op, em, result) ==
  /\ Begin(p, op, Resolve([Called(p) EXCEPT !.em = em], result))
  /\ UNCHANGED <<autoSwitchTask, autoUseSkill, autoSwitchSession, now>>

On(p) ==
  /\ CanCall
  /\ \E sub \in Subscriptions :
       NotifierCall(p, [name |-> "on", event |-> sub.event, listener |-> Listener(sub.h)],
                    EmitterOn(Called(p).em, sub.event, Listener(sub.h)), Void)

Once(p) ==
  /\ CanCall
  /\ \E sub \in Subscriptions :
       NotifierCall(p, [name |-> "once", event |-> sub.event, listener |-> Listener(sub.h)],
                    EmitterOnce(Called(p).em, sub.event, sub.h), Void)

Off(p) ==
  /\ CanCall
  /\ \E sub \in Subscriptions :
       NotifierCall(p, [name |-> "off", event |-> sub.event, listener |-> Listener(sub.h)],
                    EmitterOff(Called(p).em, sub.event, Listener(sub.h)), Void)

RemoveAllListeners(p) ==
  /\ CanCall
  /\ \E event \in NotifierEvents \cup {NoEvent} :
       NotifierCall(p, [name |-> "removeAllListeners", event |-> event],
                    EmitterRemoveAllListeners(Called(p).em, event), Void)

\* emit called from outside: what it returns, or what leaves it, is the
\* caller's
PublishResult(s, event, payload) ==
  LET em1 == EmitterEmit(s.em, event, payload)
      s1 == [s EXCEPT !.em = [em1 EXCEPT !.raised = FALSE]]
  IN IF em1.raised THEN Reject(s1, ListenerError) ELSE Resolve(s1, em1.result)

Publish(p) ==
  /\ CanCall
  /\ \E event \in NotifierEvents, payload \in Payloads :
       Begin(p, [name |-> "emit", event |-> event, payload |-> payload,
                 since |-> Len(invoked)],
             PublishResult(Called(p), event, payload))
  /\ UNCHANGED <<autoSwitchTask, autoUseSkill, autoSwitchSession, now>>

NextNotifier ==
  \/ On(Main) \/ Once(Main) \/ Off(Main) \/ RemoveAllListeners(Main)
  \/ Publish(Main)

SpecNotifier == Init /\ [][NextNotifier]_vars

\* ------------------------------------------ the coordinator with listeners
\* AgentFactoryHandler extends UniversalEventEmitter: a caller attaches
\* listeners with addEventListener (sdk.ts 86-93) before it uses the
\* coordinator.  The listeners return or throw, and are attached to one of
\* the events below.
ListenedEvents ==
  {"messageSent", "sessionSwitched", "taskSwitched", "agentStateInitialized",
   "functionCallApproved"}

RECURSIVE Count(_, _)
\* listeners in a notifier's map, over the events in names
Count(map, names) ==
  IF names = {} THEN 0
  ELSE LET e == CHOOSE x \in names : TRUE
       IN Len(map[e]) + Count(map, names \ {e})

AddEventListener(p) ==
  /\ Idle /\ ops = 0
  /\ Count(events, DOMAIN events) < MaxSubs
  /\ \E event \in ListenedEvents, h \in {"quiet", "thrower"} :
       /\ DOMAIN events \subseteq {event}
       /\ events' = EmitterOn(Cur(p).em, event, Listener(h)).events
  /\ UNCHANGED <<agentState, conversationHistory, autoSwitchTask, autoUseSkill,
                 autoSwitchSession, wrappers, invoked, stack, rv, published,
                 requests, steps, ret, pre, nextId, now, ops>>

\* emit is public on the coordinator as well
PublishListened(p) ==
  /\ CanStart
  /\ \E event \in ListenedEvents, payload \in Payloads :
       BeginCall(p, [name |-> "emit", event |-> event, payload |-> payload,
                     since |-> 0],
                 PublishResult(Fresh(p), event, payload))

NextListeners ==
  \/ AddEventListener(Main) \/ PublishListened(Main)
  \/ TestChat(Main) \/ TestChatPost(Main) \/ TestChatSettled(Main)
  \/ TestSkill(Main) \/ TestSkillPost(Main) \/ TestSkillSettled(Main)
  \/ HandleFunctionCallSettled(Main)
  \/ ApproveFunctionCall(Main) \/ ApproveFunctionCallSettled(Main)
  \/ ExecuteSwitchTaskSettled(Main) \/ ExecuteSwitchSessionSettled(Main)
  \/ ExecuteUseSkillSettled(Main) \/ SendFollowUpMessageSettled(Main)
  \/ ChangeTask(Main) \/ ChangeTaskGet(Main)
  \/ ChangeSession(Main) \/ ChangeSessionGet(Main) \/ ChangeSessionGetTask(Main)
  \/ InitializeAgentState(Main) \/ InitializeGetAgent(Main)
  \/ InitializeGetSession(Main) \/ InitializeGetTask(Main)

\* the coordinator constructed with its default options (sdk.ts 74-76)
InitListeners == Init /\ autoSwitchTask /\ autoUseSkill /\ autoSwitchSession

SpecListeners == InitListeners /\ [][NextListeners]_vars

\* ------------------------------------------------------ overlapping calls
\* Nothing in the coordinator keeps a caller from invoking testChat while
\* another call is suspended at an await.  The logs of events and requests
\* then run on across the calls.
Joined(p) == [Cur(p) EXCEPT !.rv = NoRv]

TestChatConcurrent(p) ==
  /\ stack[p] = <<>> /\ ops < MaxOps
  /\ \E message \in Messages :
       BeginCall(p, [name |-> "testChat", message |-> message, call |-> nextId],
                 EnterTestChat(Joined(p), message, conversationHistory))

NextOverlap ==
  \E p \in Procs :
    \/ TestChatConcurrent(p) \/ TestChatPost(p) \/ TestChatSettled(p)
    \/ TestSkillPost(p) \/ TestSkillSettled(p)
    \/ HandleFunctionCallSettled(p) \/ ApproveFunctionCallSettled(p)
    \/ ExecuteSwitchTaskSettled(p) \/ ExecuteSwitchSessionSettled(p)
    \/ ExecuteUseSkillSettled(p) \/ SendFollowUpMessageSettled(p)
    \/ ChangeTaskGet(p)
    \/ ChangeSessionGet(p) \/ ChangeSessionGetTask(p)

SpecOverlap == Init /\ [][NextOverlap]_vars

\* ================================================================ claims
\* the call of the caller Main that has just completed
Finished(name) == ret[Main].k # "none" /\ pre[Main].op.name = name
Returns == ret[Main].k = "ret"
Fails == ret[Main].k = "throw"

\* how often the user message of chat cycle `call` occurs in a history
Occurrences(hist, call) ==
  Cardinality({i \in 1..Len(hist) : hist[i].role = "user" /\ hist[i].call = call})

\* the names of the events an operation has published, in order
Names(pub) == [i \in 1..Len(pub) |-> pub[i].name]
Publishes(name) == \E i \in 1..Len(published) : published[i].name = name

\* the answer to the first transport call of the operation
FirstAnswered == Len(requests) >= 1 /\ Has(requests[1], "resp")
FirstFailed == FirstAnswered /\ ~requests[1].resp.ok
FirstOk == FirstAnswered /\ requests[1].resp.ok
FirstAction == FirstOk /\ Has(requests[1].resp.data, "action")

\* C1: a testChat that returns has its user message in the history exactly
\* once; the message was not there when the call began, and it is not there
\* while any testChat still waits for the answer to its POST.
C1_UserMessageAfterRoundTrip ==
  /\ (Finished("testChat") /\ Returns) =>
       /\ Occurrences(conversationHistory, pre[Main].op.call) = 1
       /\ Occurrences(pre[Main].hist, pre[Main].op.call) = 0
  /\ \A p \in Procs : \A i \in 1..Len(stack[p]) :
       (stack[p][i].fn = "testChat" /\ stack[p][i].pc = "post") =>
         Occurrences(conversationHistory, stack[p][i].userMessage.call) = 0

\* a testChat has returned on a history that already held messages
C1_Witness ==
  /\ Finished("testChat") /\ Returns
  /\ pre[Main].hist # <<>>
  /\ Len(conversationHistory) > Len(pre[Main].hist)

\* C2: when the POST of a testChat is rejected, the caller gets that
\* rejection, history and agentState are what they were before the call, and
\* the POST is the only transport call made.
C2_PostFailureLeavesNoTrace ==
  (Finished("testChat") /\ FirstFailed) =>
    /\ ret[Main] = Thrown(TransportError)
    /\ conversationHistory = pre[Main].hist
    /\ agentState = pre[Main].st
    /\ Len(requests) = 1
    /\ requests[1].verb = "POST"

\* a testChat whose POST was rejected, on a history that held messages
C2_Witness ==
  /\ Finished("testChat") /\ FirstFailed
  /\ pre[Main].hist # <<>>

\* C3 as claimed: a testChat that fails, for whatever cause, leaves its user
\* message out of the history.
C3_Original ==
  (Finished("testChat") /\ Fails) =>
    Occurrences(conversationHistory, pre[Main].op.call) = 0

\* C3 amended: a testChat that fails because its POST was rejected leaves its
\* user message out of the history; one that fails after the POST succeeded
\* (in the dispatch of the function call) leaves it in, once.
C3_FailureAfterRoundTripKeepsMessage ==
  (Finished("testChat") /\ Fails) =>
    /\ FirstFailed => Occurrences(conversationHistory, pre[Main].op.call) = 0
    /\ FirstOk => Occurrences(conversationHistory, pre[Main].op.call) = 1

\* a testChat has failed in the dispatch, after its POST succeeded
C3_Witness ==
  /\ Finished("testChat") /\ Fails /\ FirstAction
  /\ ret[Main].e.kind = "MissingArgument"

Recognized == {"switchTask", "switchSession", "useSkill"}

\* the auto-execution flag that belongs to a recognized name
FlagOf(name) ==
  CASE name = "switchTask" -> autoSwitchTask
    [] name = "switchSession" -> autoSwitchSession
    [] name = "useSkill" -> autoUseSkill

FinishedChat == Finished("testChat") \/ Finished("testSkill")
FirstActionCall == requests[1].resp.data.action
RequiresApproval(fc) == Returned([functionCall |-> fc, requiresApproval |-> TRUE])

\* C4: a recognized function call in a response is gated by its own flag
\* alone.  Flag false: the testChat or testSkill returns {functionCall,
\* requiresApproval: true}, functionCallReceived is the last event it
\* publishes, the POST is its only transport call and session_id and task_id
\* keep their values.  Flag true: functionCallApproved for the same call
\* directly follows functionCallReceived.
C4_AutoFlagsGateDispatch ==
  /\ \A i \in 1..Len(published) :
       (/\ published[i].name = "functionCallReceived"
        /\ published[i].functionCall.name \in Recognized) =>
         IF FlagOf(published[i].functionCall.name)
         THEN /\ Len(published) > i
              /\ published[i + 1].name = "functionCallApproved"
              /\ published[i + 1].functionCall = published[i].functionCall
         ELSE ~(Len(published) > i /\ published[i + 1].name = "functionCallApproved")
  /\ (/\ FinishedChat /\ FirstAction
      /\ FirstActionCall.name \in Recognized
      /\ ~FlagOf(FirstActionCall.name)) =>
       /\ ret[Main] = RequiresApproval(FirstActionCall)
       /\ Names(published) \in {<<"messageSent", "functionCallReceived">>,
                                <<"skillCalled", "messageSent", "functionCallReceived">>}
       /\ Len(requests) = 1
       /\ agentState.session_id = pre[Main].st.session_id
       /\ agentState.task_id = pre[Main].st.task_id

\* a testSkill has returned a switchSession call for approval while the two
\* other flags are set
C4_Witness ==
  /\ Finished("testSkill") /\ FirstAction
  /\ FirstActionCall.name = "switchSession"
  /\ ~autoSwitchSession /\ autoSwitchTask /\ autoUseSkill
  /\ ret[Main] = RequiresApproval(FirstActionCall)

\* C5: changeSession(n) with n outside 1..length(agent_details.sessions), or
\* with no or an empty session list, fails with a selection error, makes no
\* transport call, publishes no sessionSwitched and leaves agentState as it was.
C5_ChangeSessionOutOfRange ==
  (/\ Finished("changeSession")
   /\ pre[Main].op.sessionId.isNum
   /\ \/ ~Has(pre[Main].st.agent_details, "sessions")
      \/ pre[Main].op.sessionId.n < 1
      \/ pre[Main].op.sessionId.n > Len(pre[Main].st.agent_details.sessions)) =>
    /\ Fails
    /\ ret[Main].e.kind = "SelectionError"
    /\ requests = <<>>
    /\ ~Publishes("sessionSwitched")
    /\ agentState = pre[Main].st

\* changeSession(0) has completed against a list of two sessions
C5_Witness ==
  /\ Finished("changeSession")
  /\ pre[Main].op.sessionId = NumSel(0)
  /\ Has(pre[Main].st.agent_details, "sessions")
  /\ Len(pre[Main].st.agent_details.sessions) = 2

\* C6 as claimed: changeTask(n) with 1 <= n <= length(session_details.tasks)
\* fetches the n-th task of the list and, when the fetch succeeds, makes it
\* the current task.
C6_Original ==
  (/\ Finished("changeTask")
   /\ pre[Main].op.taskId.isNum
   /\ Has(pre[Main].st.session_details, "tasks")
   /\ pre[Main].op.taskId.n \in 1..Len(pre[Main].st.session_details.tasks)) =>
    LET nth == RefId(pre[Main].st.session_details.tasks[pre[Main].op.taskId.n]) IN
    /\ Len(requests) = 1
    /\ requests[1].id = nth
    /\ Returns => agentState.task_id = nth

\* C7: after a successful initializeAgentState(a) for an agent with sessions
\* whose first session has tasks, agent_id is a, the session is the agent's
\* first session with its fetched detail and the task is that session's
\* first task with its fetched detail.
C7_InitializeSelectsFirstSessionAndTask ==
  (/\ Finished("initializeAgentState") /\ Returns
   /\ Has(requests[1].resp.data, "sessions")
   /\ Len(requests[1].resp.data.sessions) > 0) =>
    /\ Len(requests) >= 2
    /\ LET agent == requests[1].resp.data
           session == requests[2].resp.data
       IN /\ agentState.agent_id = pre[Main].op.agentId
          /\ requests[2].id = RefId(agent.sessions[1])
          /\ agentState.session_id = RefId(agent.sessions[1])
          /\ agentState.session_details = session
          /\ (Has(session, "tasks") /\ Len(session.tasks) > 0) =>
               /\ Len(requests) = 3
               /\ requests[3].id = RefId(session.tasks[1])
               /\ agentState.task_id = RefId(session.tasks[1])
               /\ agentState.task_details = requests[3].resp.data

\* initializeAgentState has succeeded and replaced another current task
C7_Witness ==
  /\ Finished("initializeAgentState") /\ Returns
  /\ Len(requests) = 3
  /\ pre[Main].st.task_id = "T2"
  /\ agentState.task_id = "T1"

\* C8: approveFunctionCall of switchSession with sessionIndex k in
\* 1..length(agent_details.sessions) fetches the k-th session; when the
\* fetches succeed it returns {success: true, message} naming index k with
\* session_id the k-th session's id.  With sessionId and no sessionIndex it
\* does the same for that id.
C8_SwitchSessionByIndexOrId ==
  (/\ Finished("approveFunctionCall")
   /\ pre[Main].op.functionCall.name = "switchSession") =>
    LET args == pre[Main].op.functionCall.args
        sessions == pre[Main].st.agent_details.sessions
        allOk == \A i \in 1..Len(requests) : requests[i].resp.ok
    IN /\ (/\ Has(args, "sessionIndex") /\ args.sessionIndex.isNum
           /\ Has(pre[Main].st.agent_details, "sessions")
           /\ args.sessionIndex.n \in 1..Len(sessions)) =>
            /\ requests[1].id = RefId(sessions[args.sessionIndex.n])
            /\ allOk => Returns
            /\ Returns =>
                 /\ agentState.session_id = RefId(sessions[args.sessionIndex.n])
                 /\ ret[Main].v = [success |-> TRUE,
                                   message |-> [t |-> "Switched to session at index",
                                                sel |-> args.sessionIndex]]
       /\ (~Has(args, "sessionIndex") /\ Has(args, "sessionId")) =>
            /\ requests[1].id = args.sessionId
            /\ allOk => Returns
            /\ Returns =>
                 /\ agentState.session_id = args.sessionId
                 /\ ret[Main].v = [success |-> TRUE,
                                   message |-> [t |-> "Switched to session",
                                                id |-> args.sessionId]]

\* switchSession with sessionIndex 2 has been approved and has switched from
\* the first session to the second
C8_Witness ==
  /\ Finished("approveFunctionCall") /\ Returns
  /\ pre[Main].op.functionCall = FC("switchSession", [sessionIndex |-> NumSel(2)])
  /\ agentState.session_id = "S2"

\* C9 as claimed: a function call of any other name fails with
\* UnknownFunctionCall, in approveFunctionCall and as the action of a
\* response alike, changes no state and is never reported executed.
C9_Original ==
  /\ (/\ Finished("approveFunctionCall")
      /\ pre[Main].op.functionCall.name \notin Recognized) =>
       /\ Fails /\ ret[Main].e.kind = "UnknownFunctionCall"
       /\ agentState = pre[Main].st
       /\ ~Publishes("functionCallExecuted")
  /\ (FinishedChat /\ FirstAction /\ FirstActionCall.name \notin Recognized) =>
       /\ Fails /\ ret[Main].e.kind = "UnknownFunctionCall"
       /\ agentState = pre[Main].st
       /\ ~Publishes("functionCallExecuted")

\* C9 amended: passed to approveFunctionCall, a function call of any other
\* name fails with UnknownFunctionCall; as the action of a response to
\* testChat or testSkill it is not executed and the call returns
\* {functionCall, requiresApproval: true}.  In both cases agentState is
\* unchanged and no functionCallExecuted is published.
C9_UnknownNameIsNeverExecuted ==
  /\ (/\ Finished("approveFunctionCall")
      /\ pre[Main].op.functionCall.name \notin Recognized) =>
       /\ Fails /\ ret[Main].e.kind = "UnknownFunctionCall"
       /\ agentState = pre[Main].st
       /\ ~Publishes("functionCallExecuted")
  /\ (FinishedChat /\ FirstAction /\ FirstActionCall.name \notin Recognized) =>
       /\ ret[Main] = RequiresApproval(FirstActionCall)
       /\ agentState = pre[Main].st
       /\ ~Publishes("functionCallApproved")
       /\ ~Publishes("functionCallExecuted")

\* a testChat has completed whose response carried a call of another name
C9_Witness ==
  /\ Finished("testChat") /\ FirstAction
  /\ FirstActionCall.name = "openDoor"
  /\ pre[Main].st.session_id # ""

HasCallNamed(hist, name) ==
  \E i \in 1..Len(hist) : \E j \in 1..Len(hist[i].parts) :
    /\ Has(hist[i].parts[j], "functionCall")
    /\ hist[i].parts[j].functionCall.name = name

\* C11: declineFunctionCall(fc), when no message of the history holds a
\* function call named fc.name, leaves history and agentState as they were
\* and publishes exactly one event, functionCallDeclined for fc.
C11_DeclineOfAbsentCall ==
  (/\ Finished("declineFunctionCall")
   /\ ~HasCallNamed(pre[Main].hist, pre[Main].op.functionCall.name)) =>
    /\ conversationHistory = pre[Main].hist
    /\ agentState = pre[Main].st
    /\ Names(published) = <<"functionCallDeclined">>
    /\ published[1].functionCall = pre[Main].op.functionCall

\* a call was declined that the history does not hold, while the history
\* holds a message with another function call and _meta
C11_Witness ==
  /\ Finished("declineFunctionCall")
  /\ ~HasCallNamed(pre[Main].hist, pre[Main].op.functionCall.name)
  /\ \E i \in 1..Len(pre[Main].hist) :
       /\ Has(pre[Main].hist[i], "meta")
       /\ \E j \in 1..Len(pre[Main].hist[i].parts) :
            Has(pre[Main].hist[i].parts[j], "functionCall")

\* C12: after clearConversationHistory, getConversationHistory returns the
\* empty sequence whatever the history held, and the clear has published
\* exactly one conversationHistoryUpdated, whose history is empty.
C12_ClearThenGetIsEmpty ==
  Finished("clearConversationHistory") =>
    /\ GetConversationHistory = <<>>
    /\ Cardinality({i \in 1..Len(published) :
                      published[i].name = "conversationHistoryUpdated"}) = 1
    /\ \A i \in 1..Len(published) :
         published[i].name = "conversationHistoryUpdated" =>
           published[i].history = <<>>

\* a history that held messages has been cleared
C12_Witness ==
  /\ Finished("clearConversationHistory")
  /\ pre[Main].hist # <<>>
  /\ Len(published) = 1

\* the subscribers of an event in a notifier's map
Subscribers(map, event) == IF event \in DOMAIN map THEN map[event] ELSE <<>>

\* the invocations a completed emit of the caller has made itself, nested
\* publishes left out
Delivered ==
  SelectSeq(SubSeq(invoked, pre[Main].op.since + 1, Len(invoked)),
            LAMBDA x : x.nest = 0)

\* C13: emit returns false and invokes no subscriber when the event has no
\* subscriber as it starts; otherwise it returns true.
C13_PublishReportsSubscribers ==
  Finished("emit") =>
    IF Subscribers(pre[Main].events, pre[Main].op.event) = <<>>
    THEN /\ ret[Main] = Returned(FALSE)
         /\ Len(invoked) = pre[Main].op.since
    ELSE ret[Main] = Returned(TRUE)

\* an emit of an event without subscribers has returned false while the
\* other event has subscribers
C13_Witness ==
  /\ Finished("emit")
  /\ ret[Main] = Returned(FALSE)
  /\ Subscribers(pre[Main].events, pre[Main].op.event) = <<>>
  /\ \E e \in DOMAIN events : e # pre[Main].op.event

\* C14: emit invokes exactly the subscribers the event had when emit
\* started, once per registration and in subscription order, each with the
\* payload, whatever the subscribers add or remove during the delivery.
C14_DeliveryFollowsSnapshot ==
  Finished("emit") =>
    /\ [i \in 1..Len(Delivered) |-> Delivered[i].listener]
         = Subscribers(pre[Main].events, pre[Main].op.event)
    /\ \A i \in 1..Len(Delivered) :
         /\ Delivered[i].event = pre[Main].op.event
         /\ Delivered[i].payload = pre[Main].op.payload

\* a delivery to <<clearer, adder>>: the adder, removed by the clearer during
\* the delivery, was still invoked, and the function it added was not
C14_Witness ==
  /\ Finished("emit")
  /\ Subscribers(pre[Main].events, pre[Main].op.event)
       = <<Listener("clearer"), Listener("adder")>>
  /\ Subscribers(events, pre[Main].op.event) = <<Listener("quiet")>>
  /\ Len(Delivered) = 2

\* how often the wrapper of once() numbered k has been invoked
Runs(k) == Cardinality({i \in 1..Len(invoked) : invoked[i].listener.once = k})

\* C16 as claimed: over any sequence of publishes, a handler registered with
\* once is invoked at most once.
C16_Original == \A k \in 1..(wrappers - 1) : Runs(k) <= 1

RECURSIVE Invocations(_, _)
\* the invocations the events pub[i..] give rise to on the listeners attached
Invocations(pub, i) ==
  IF i > Len(pub) THEN <<>>
  ELSE LET subs == Subscribers(events, pub[i].name)
       IN [j \in 1..Len(subs) |-> [listener |-> subs[j], event |-> pub[i].name,
                                   payload |-> pub[i], nest |-> 0]]
          \o Invocations(pub, i + 1)

\* C15: a listener that throws stops nothing.  An emit invokes every
\* subscriber of its snapshot, those after a thrower too, and returns true;
\* every event a coordinator operation publishes reaches every listener
\* attached to it; and no call, of emit or of a coordinator operation, ever
\* ends with what a listener threw, so no operation is cut short by one.
C15_ThrowingListenerIsContained ==
  /\ \A p \in Procs : ret[p].k = "throw" => ret[p].e # ListenerError
  /\ Finished("emit") =>
       /\ [i \in 1..Len(Delivered) |-> Delivered[i].listener]
            = Subscribers(pre[Main].events, pre[Main].op.event)
       /\ ret[Main] = Returned(Subscribers(pre[Main].events, pre[Main].op.event) # <<>>)
  /\ pre[Main].op.name # "emit" => invoked = Invocations(published, 1)

\* a changeSession has returned and selected another session, with a thrower
\* and after it a quiet listener attached to sessionSwitched, both invoked
C15_Witness ==
  /\ Finished("changeSession") /\ Returns
  /\ agentState.session_id # pre[Main].st.session_id
  /\ Subscribers(events, "sessionSwitched") = <<Listener("thrower"), Listener("quiet")>>
  /\ [i \in 1..Len(invoked) |-> invoked[i].listener]
       = <<Listener("thrower"), Listener("quiet")>>

\* the outcome events an operation has published
Outcomes(name) == {i \in 1..Len(published) : published[i].name = name}

\* C17: an initializeAgentState that returns has published exactly one
\* agentStateInitialized, carrying the resulting agentState, and no
\* agentStateInitializedError; one that fails has published exactly one
\* agentStateInitializedError, carrying the error raised to the caller and the
\* agent id, and no agentStateInitialized.
C17_InitializeOutcomeNotification ==
  Finished("initializeAgentState") =>
    IF Returns
    THEN /\ Cardinality(Outcomes("agentStateInitialized")) = 1
         /\ Outcomes("agentStateInitializedError") = {}
         /\ published[Len(published)] =
              [name |-> "agentStateInitialized", agentState |-> agentState]
    ELSE /\ Cardinality(Outcomes("agentStateInitializedError")) = 1
         /\ Outcomes("agentStateInitialized") = {}
         /\ published[Len(published)] =
              [name |-> "agentStateInitializedError", error |-> ret[Main].e,
               agentId |-> pre[Main].op.agentId]

\* an initializeAgentState has failed at a later fetch, after the agent's
\* details had arrived
C17_Witness ==
  /\ Finished("initializeAgentState") /\ Fails
  /\ Len(requests) >= 2
  /\ FirstOk

\* the operations the claim C18 names
Appenders ==
  {"testChat", "testSkill", "addMessageToHistory", "clearConversationHistory"}

\* C18 as claimed: an operation that has changed the history has published
\* a conversationHistoryUpdated carrying the history as changed.
C18_Original ==
  (/\ ret[Main].k # "none"
   /\ pre[Main].op.name \in Appenders
   /\ conversationHistory # pre[Main].hist) =>
    \E i \in Outcomes("conversationHistoryUpdated") :
      published[i].history = conversationHistory

\* C19 as claimed: updateAgentState and every successful
\* initializeAgentState, changeSession and changeTask leave updated_at later
\* than it was.
C19_Original ==
  (/\ Returns
   /\ pre[Main].op.name \in {"updateAgentState", "initializeAgentState",
                             "changeSession", "changeTask"}) =>
    agentState.updated_at > pre[Main].st.updated_at

\* the call (chat cycle) caller p has made, the POST that carried it and the
\* place its user message first takes in the history
CallOf(p) == pre[p].op.call
PostOf(c) ==
  CHOOSE i \in 1..Len(requests) :
    /\ requests[i].verb = "POST"
    /\ requests[i].history[Len(requests[i].history)].call = c
PlaceOf(c) ==
  CHOOSE i \in 1..Len(conversationHistory) :
    /\ conversationHistory[i].role = "user" /\ conversationHistory[i].call = c
    /\ \A j \in 1..(i - 1) :
         ~(conversationHistory[j].role = "user" /\ conversationHistory[j].call = c)

\* caller p's testChat has returned a reply that carried no action
ChatReplied(p) ==
  /\ ret[p].k = "ret"
  /\ pre[p].op.name = "testChat"
  /\ ~Has(requests[PostOf(CallOf(p))].resp.data, "action")

\* C20: when the testChat calls of two callers have both returned plain
\* replies, their user messages stand in the history in the order in which
\* the replies arrived.
C20_HistoryFollowsArrival ==
  \A p, q \in Procs :
    (p # q /\ ChatReplied(p) /\ ChatReplied(q)) =>
      (requests[PostOf(CallOf(p))].at < requests[PostOf(CallOf(q))].at
         <=> PlaceOf(CallOf(p)) < PlaceOf(CallOf(q)))

\* two overlapping testChat calls have returned and the message of the call
\* made first stands after the message of the call made second
C20_Witness ==
  /\ ChatReplied("main") /\ ChatReplied("other")
  /\ CallOf("main") < CallOf("other")
  /\ PlaceOf(CallOf("main")) > PlaceOf(CallOf("other"))

\* C21 as claimed: changeTask(n) with a number n outside
\* 1..length(session_details.tasks), or with no task list, fails with
\* SelectionError, issues no request, publishes no taskSwitched and leaves
\* agentState as it was.
C21_Original ==
  (/\ Finished("changeTask")
   /\ pre[Main].op.taskId.isNum
   /\ \/ ~Has(pre[Main].st.session_details, "tasks")
      \/ pre[Main].op.taskId.n \notin 1..Len(pre[Main].st.session_details.tasks)) =>
    /\ Fails
    /\ ret[Main].e.kind = "SelectionError"
    /\ requests = <<>>
    /\ ~Publishes("taskSwitched")
    /\ agentState = pre[Main].st

\* the session a changeSession call resolves its argument to, and what a
\* changeSession that returned has fetched
ResolvedSession ==
  IF pre[Main].op.sessionId.isNum
  THEN RefId(pre[Main].st.agent_details.sessions[pre[Main].op.sessionId.n])
  ELSE pre[Main].op.sessionId.id
FetchedSession == requests[1].resp.data
HasTasks(detail) == Has(detail, "tasks") /\ Len(detail.tasks) > 0
SessionSwitched == Finished("changeSession") /\ Returns

\* what C22 and its original have in common: the session fields, the task
\* fields when the session has tasks, and one sessionSwitched, published last
\* with the updated state and the new id
SwitchEffects ==
  /\ agentState.session_id = ResolvedSession
  /\ agentState.session_details = FetchedSession
  /\ HasTasks(FetchedSession) =>
       /\ Len(requests) = 2
       /\ requests[2].id = RefId(FetchedSession.tasks[1])
       /\ agentState.task_id = requests[2].resp.data.id
       /\ agentState.task_details = requests[2].resp.data
  /\ Names(published) = <<"sessionSwitched">>
  /\ published[1].agentState = agentState
  /\ published[1].newSessionId = ResolvedSession

\* C22 as claimed: ... and the sessionSwitched carries the previous session id.
C22_Original ==
  SessionSwitched =>
    /\ SwitchEffects
    /\ Has(published[1], "oldSessionId")
    /\ published[1].oldSessionId = pre[Main].st.session_id

\* C22: a changeSession that returns has set session_id to the resolved id and
\* session_details to the fetched detail, has set task_id and task_details to
\* the fetched first task when the session has tasks, and has published
\* exactly one sessionSwitched, after the state was updated, carrying the new
\* session id and, when a session was selected before the call, the previous
\* one; when none was selected the notification has no oldSessionId.
C22_SessionSwitchedAfterUpdate ==
  SessionSwitched =>
    /\ SwitchEffects
    /\ IF pre[Main].st.session_id # ""
       THEN /\ Has(published[1], "oldSessionId")
            /\ published[1].oldSessionId = pre[Main].st.session_id
       ELSE ~Has(published[1], "oldSessionId")

\* a changeSession from S2 to S1, which has tasks, has returned
C22_Witness ==
  /\ SessionSwitched
  /\ pre[Main].st.session_id = "S2"
  /\ agentState.session_id = "S1"
  /\ agentState.task_id = "T1"
  /\ published[1].oldSessionId = "S2"

\* C23: a changeSession that returns for a session whose detail has no tasks
\* has replaced session_id and session_details, has issued the one request
\* for the session and has left task_id and task_details as they were.
C23_TasklessSessionKeepsTask ==
  (SessionSwitched /\ ~HasTasks(FetchedSession)) =>
    /\ agentState.task_id = pre[Main].st.task_id
    /\ agentState.task_details = pre[Main].st.task_details
    /\ agentState.session_id = ResolvedSession
    /\ agentState.session_details = FetchedSession
    /\ Len(requests) = 1

\* with task T1 of session S1 selected, a changeSession to S2, which has no
\* tasks, has returned
C23_Witness ==
  /\ SessionSwitched
  /\ ~HasTasks(FetchedSession)
  /\ pre[Main].st.session_id = "S1"
  /\ pre[Main].st.task_id = "T1"
  /\ agentState.session_id = "S2"
  /\ agentState.session_details # pre[Main].st.session_details

\* the ids of the tasks of a session detail
TaskIdsOf(detail) ==
  IF Has(detail, "tasks") THEN {RefId(detail.tasks[i]) : i \in 1..Len(detail.tasks)} ELSE {}

\* C24 as claimed: whenever a session and a task are selected, the task is
\* one of the tasks of the selected session.
C24_Original ==
  (agentState.task_id # "" /\ agentState.session_id # "") =>
    agentState.task_id \in TaskIdsOf(agentState.session_details)

\* an initializeAgentState that returned found a first session with tasks
InitializedWithTasks ==
  /\ Finished("initializeAgentState") /\ Returns
  /\ Len(requests) = 3

\* C24: after a changeSession or an initializeAgentState that returns and
\* whose session has tasks, task_id is the first task of the selected
\* session; after a changeTask by number that returns, task_id is one of the
\* tasks of the selected session.
C24_TaskOfSessionAfterSelection ==
  /\ (SessionSwitched /\ HasTasks(FetchedSession)) =>
       agentState.task_id = RefId(agentState.session_details.tasks[1])
  /\ InitializedWithTasks =>
       /\ agentState.session_details = requests[2].resp.data
       /\ agentState.task_id = RefId(agentState.session_details.tasks[1])
  /\ (Finished("changeTask") /\ Returns /\ pre[Main].op.taskId.isNum) =>
       /\ agentState.session_details = pre[Main].st.session_details
       /\ agentState.task_id \in TaskIdsOf(agentState.session_details)

\* an initializeAgentState has selected the first task of the first session,
\* where no task was selected and none of that session before
C24_Witness ==
  /\ InitializedWithTasks
  /\ pre[Main].st.task_id = ""
  /\ agentState.session_id = "S1"
  /\ agentState.task_id = "T1"

\* the last thing the operation did was to publish its last event
EndsWithEvent ==
  /\ steps # <<>>
  /\ steps[Len(steps)] = Step("event", Len(published))

\* the last event reports the execution of fc with the value returned
ReportsExecution(fc) ==
  /\ published # <<>>
  /\ published[Len(published)].name = "functionCallExecuted"
  /\ published[Len(published)].functionCall = fc
  /\ ret[Main] = Returned(published[Len(published)].result)
  /\ EndsWithEvent

\* the place of the first functionCallReceived
FirstReceived ==
  CHOOSE i \in 1..Len(published) :
    /\ published[i].name = "functionCallReceived"
    /\ \A j \in 1..(i - 1) : published[j].name # "functionCallReceived"

\* C25: approveFunctionCall publishes functionCallApproved before anything
\* else it does; when it returns, its last step is to publish
\* functionCallExecuted with the value it returns; when it fails, the error
\* reaches the caller and no functionCallExecuted is published.  A call that
\* testChat or testSkill executes by itself is published as
\* functionCallReceived, directly followed by functionCallApproved and, when
\* the execution succeeds, closed by functionCallExecuted.
C25_ApprovedThenExecuted ==
  /\ Finished("approveFunctionCall") =>
       /\ steps[1] = Step("event", 1)
       /\ published[1].name = "functionCallApproved"
       /\ published[1].functionCall = pre[Main].op.functionCall
       /\ Returns => ReportsExecution(pre[Main].op.functionCall)
       /\ Fails => ~Publishes("functionCallExecuted")
  /\ (FinishedChat /\ FirstAction /\ ~(Returns /\ ret[Main] = RequiresApproval(FirstActionCall))) =>
       /\ Publishes("functionCallReceived")
       /\ Len(published) > FirstReceived
       /\ published[FirstReceived].functionCall = FirstActionCall
       /\ published[FirstReceived + 1].name = "functionCallApproved"
       /\ published[FirstReceived + 1].functionCall = FirstActionCall
       /\ Returns => ReportsExecution(FirstActionCall)
       /\ Fails => ~Publishes("functionCallExecuted")

\* an approved call has been executed with at least one request and has
\* returned the result that its functionCallExecuted carries
C25_Witness ==
  /\ Finished("approveFunctionCall") /\ Returns
  /\ requests # <<>>
  /\ Len(published) > 2
  /\ ReportsExecution(pre[Main].op.functionCall)

\* the argument that the execute* method of fc requires is absent
LacksArgument(fc) ==
  \/ fc.name = "switchTask" /\ ~Has(fc.args, "task_id")
  \/ fc.name = "switchSession" /\ ~Has(fc.args, "sessionIndex") /\ ~Has(fc.args, "sessionId")
  \/ fc.name = "useSkill" /\ ~Has(fc.args, "skillName")

ApprovedSwitchTask ==
  /\ Finished("approveFunctionCall")
  /\ pre[Main].op.functionCall.name = "switchTask"
  /\ Has(pre[Main].op.functionCall.args, "task_id")
  /\ requests # <<>>

\* C27: an approved switchTask with a task_id first performs changeTask: the
\* GET of the task is its first request.  When that fails nothing is sent
\* and the call fails.  When it succeeds, taskSwitched is published, then
\* the messageSent of the follow-up, then the one follow-up POST, whose text
\* announces the switch and whose agentState has the new task_id; a failed
\* POST fails the call, and a reply without action is the value returned,
\* after which nothing more is requested.
C27_SwitchTaskThenFollowUp ==
  ApprovedSwitchTask =>
    /\ requests[1].verb = "GET" /\ requests[1].path = "/v2/agents/tasks"
    /\ ~requests[1].resp.ok => Fails /\ Len(requests) = 1 /\ ~Publishes("messageSent")
    /\ requests[1].resp.ok =>
         /\ Len(requests) >= 2 /\ Len(published) >= 3 /\ Len(steps) >= 5
         /\ SubSeq(steps, 1, 5) = <<Step("event", 1), Step("request", 1), Step("event", 2),
                                    Step("event", 3), Step("request", 2)>>
         /\ SubSeq(Names(published), 1, 3) =
              <<"functionCallApproved", "taskSwitched", "messageSent">>
         /\ published[2].newTaskId = requests[1].id
         /\ requests[2].verb = "POST" /\ requests[2].path = "/chat/test-chat"
         /\ requests[2].agentState.task_id = requests[1].id
         /\ requests[2].agentState.task_details = requests[1].resp.data
         /\ requests[2].message =
              SwitchedToTask(requests[2].agentState, pre[Main].op.functionCall.args.task_id)
         /\ published[3].message = requests[2].message
         /\ ~requests[2].resp.ok => Fails
         /\ (requests[2].resp.ok /\ ~Has(requests[2].resp.data, "action")) =>
              /\ ret[Main] = Returned(requests[2].resp.data)
              /\ Len(requests) = 2
              /\ Cardinality(Outcomes("messageSent")) = 1

\* an approved switchTask to T2, with another task selected before, has
\* returned the reply to its follow-up
C27_Witness ==
  /\ ApprovedSwitchTask
  /\ Returns
  /\ pre[Main].st.task_id = "T1"
  /\ agentState.task_id = "T2"
  /\ Len(requests) = 2
  /\ ret[Main] = Returned(requests[2].resp.data)

\* a testChat has completed whose POST was answered without an action
PlainChat == Finished("testChat") /\ FirstOk /\ ~FirstAction

\* C28: a testChat whose response carries no action does six things in this
\* order: it publishes messageSent, issues the POST, appends the user message
\* to the history, appends the model message directly after it, publishes
\* messageReceived and publishes conversationHistoryUpdated.  It publishes
\* nothing else, returns the server response, and the history is the one
\* before the call followed by the user message and the model message.
C28_PlainChatStepOrder ==
  PlainChat =>
    LET n == Len(pre[Main].hist)
        response == requests[1].resp.data
    IN /\ steps = <<Step("event", 1), Step("request", 1),
                    Step("append", n + 1), Step("append", n + 2),
                    Step("event", 2), Step("event", 3)>>
       /\ Names(published) = <<"messageSent", "messageReceived", "conversationHistoryUpdated">>
       /\ requests[1].verb = "POST" /\ requests[1].path = "/chat/test-chat"
       /\ conversationHistory =
            pre[Main].hist \o <<UserMessage(pre[Main].op.message, pre[Main].op.call),
                                AssistantMessage(response, pre[Main].op.call)>>
       /\ published[2].response = response
       /\ published[3].history = conversationHistory
       /\ ret[Main] = Returned(response)

\* a testChat on a history that was not empty has returned a plain reply
C28_Witness ==
  /\ PlainChat
  /\ Returns
  /\ pre[Main].hist # <<>>
  /\ Len(conversationHistory) = Len(pre[Main].hist) + 2

\* the POSTs of the operation that were answered with a plain reply
PlainReplies ==
  {i \in 1..Len(requests) :
     /\ requests[i].verb = "POST" /\ Has(requests[i], "resp")
     /\ requests[i].resp.ok /\ ~Has(requests[i].resp.data, "action")}

\* the model messages built in chat cycle call
ModelMessages(call) ==
  {i \in 1..Len(conversationHistory) :
     conversationHistory[i].role = "model" /\ conversationHistory[i].call = call}

CanEdit == Idle /\ ops < MaxEdits

AddMessages(p) ==
  /\ CanEdit
  /\ \E message \in AddedMessages :
       Begin(p, [name |-> "addMessageToHistory", message |-> message],
             Resolve(AddResult(Fresh(p), message), Void))
  /\ UNCHANGED <<autoSwitchTask, autoUseSkill, autoSwitchSession, now>>

DeclineCalls(p) ==
  /\ CanEdit
  /\ \E functionCall \in {FC("switchTask", EmptyRec), FC("useSkill", EmptyRec)} :
       Begin(p, [name |-> "declineFunctionCall", functionCall |-> functionCall],
             Resolve(DeclineResult(Fresh(p), functionCall), Void))
  /\ UNCHANGED <<autoSwitchTask, autoUseSkill, autoSwitchSession, now>>

NextHistory == AddMessages(Main) \/ DeclineCalls(Main)

SpecHistory == Init /\ [][NextHistory]_vars

\* message holds a function call named name
HoldsCall(message, name) ==
  \E j \in 1..Len(message.parts) :
    /\ Has(message.parts[j], "functionCall")
    /\ message.parts[j].functionCall.name = name

Declined(message) ==
  Has(message, "meta") /\ Has(message.meta, "functionCallStatus")
                       /\ message.meta.functionCallStatus = "DECLINED"

\* C30 as claimed: declineFunctionCall(fc) marks every message of the history
\* that holds a call named fc.name as DECLINED and changes nothing else.
C30_Original ==
  Finished("declineFunctionCall") =>
    /\ Len(conversationHistory) = Len(pre[Main].hist)
    /\ \A i \in 1..Len(conversationHistory) :
         IF HoldsCall(pre[Main].hist[i], pre[Main].op.functionCall.name)
         THEN Declined(conversationHistory[i])
         ELSE conversationHistory[i] = pre[Main].hist[i]

\* C30: declineFunctionCall(fc) sets functionCallStatus to DECLINED in the
\* _meta of every message of the history that has a _meta and a part whose
\* call is named fc.name, wherever it stands, and changes nothing else of
\* such a message; every other message, among them a message that holds the
\* call and has no _meta, is as it was, and so are the length and the order.
C30_DeclineMarksMessagesWithMeta ==
  Finished("declineFunctionCall") =>
    /\ Len(conversationHistory) = Len(pre[Main].hist)
    /\ \A i \in 1..Len(conversationHistory) :
         LET before == pre[Main].hist[i] IN
         IF HoldsCall(before, pre[Main].op.functionCall.name) /\ Has(before, "meta")
         THEN /\ Declined(conversationHistory[i])
              /\ conversationHistory[i] =
                   [before EXCEPT !.meta = Spread(@, [functionCallStatus |-> "DECLINED"])]
         ELSE conversationHistory[i] = before

\* a call was declined that two messages of the history hold, with a message
\* holding another call between them; both are marked now and were not before
C30_Witness ==
  /\ Finished("declineFunctionCall")
  /\ Len(pre[Main].hist) = 3
  /\ HoldsCall(pre[Main].hist[1], pre[Main].op.functionCall.name)
  /\ ~HoldsCall(pre[Main].hist[2], pre[Main].op.functionCall.name)
  /\ HoldsCall(pre[Main].hist[3], pre[Main].op.functionCall.name)
  /\ ~Declined(pre[Main].hist[1]) /\ ~Declined(pre[Main].hist[3])
  /\ Declined(conversationHistory[1]) /\ Declined(conversationHistory[3])

\* C31 as claimed: a testSkill publishes skillCalled only when its selector
\* resolved to a skill of the current task, with that skill's id and before
\* the POST; a testSkill that fails with SelectionError has published neither
\* skillCalled nor messageSent.
C31_Original ==
  Finished("testSkill") =>
    /\ Publishes("skillCalled") =>
         /\ Has(pre[Main].st.task_details, "skills")
         /\ pre[Main].op.skillName \in 1..Len(pre[Main].st.task_details.skills)
         /\ Has(published[1], "skillId")
         /\ published[1].skillId = pre[Main].st.task_details.skills[pre[Main].op.skillName].id
         /\ requests # <<>>
         /\ steps[1] = Step("event", 1)
    /\ (Fails /\ ret[Main].e.kind = "SelectionError") =>
         /\ ~Publishes("skillCalled")
         /\ ~Publishes("messageSent")

\* a message without the mark that declineFunctionCall may have set on it
Unmarked(message) ==
  IF Has(message, "meta")
  THEN [message EXCEPT !.meta = [k \in DOMAIN @ \ {"functionCallStatus"} |-> @[k]]]
  ELSE message

\* the step is a clearConversationHistory
ClearStep == ops' = ops + 1 /\ pre'[Main].op.name = "clearConversationHistory"

Served(responses) == CHOOSE r \in responses : r.ok

\* initializeAgentState(agentId) run from s to its end against a server that
\* serves every fetch
RunInitialize(s, agentId) ==
  LET r1 == Served(AgentResponses(agentId))
      s1 == InitializeAgentResume(Answered(EnterInitializeAgentState(s, agentId), r1), r1)
      s2 == IF s1.stack = <<>>
            THEN s1
            ELSE LET r2 == Served(SessionResponses(Top(s1).firstId))
                 IN InitializeSessionResume(Answered(s1, r2), r2)
  IN IF s2.stack = <<>>
     THEN s2
     ELSE LET r3 == Served(TaskResponses(Top(s2).firstId))
          IN InitializeTaskResume(Answered(s2, r3), r3)

\* the selection that initializeAgentState makes
Selection(st) ==
  [agent_id |-> st.agent_id, session_id |-> st.session_id,
   session_details |-> st.session_details, task_id |-> st.task_id,
   task_details |-> st.task_details]

\* C33: in the state that an initializeAgentState(a) has left by returning,
\* a second initializeAgentState(a) against the same server data returns,
\* issues as many fetches as the first and leaves agent_id, session_id,
\* session_details, task_id and task_details as they are.
C33_InitializeTwiceIsOnce ==
  (Finished("initializeAgentState") /\ Returns) =>
    LET again == RunInitialize(Fresh(Main), pre[Main].op.agentId) IN
    /\ again.rv = Returned(Void)
    /\ Len(again.req) = Len(requests)
    /\ \A i \in 1..Len(requests) : again.req[i].id = requests[i].id
    /\ Selection(again.st) = Selection(agentState)

\* a second initializeAgentState('A1') has returned after three fetches from
\* the state that the first had left
C33_Witness ==
  /\ Finished("initializeAgentState") /\ Returns
  /\ pre[Main].op.agentId = "A1"
  /\ pre[Main].st.agent_id = "A1" /\ pre[Main].st.task_id = "T1"
  /\ Len(requests) = 3
  /\ Selection(agentState) = Selection(pre[Main].st)

\* C34 as claimed: when initializeAgentState has returned for an agent whose
\* detail lists sessions, agent_details.sessions is that list; and a
\* changeSession(i) made in a state that an initializeAgentState has left,
\* with i within the fetched list, fetches the i-th session of the list.
C34_Original ==
  /\ (/\ Finished("initializeAgentState") /\ Returns
      /\ Has(requests[1].resp.data, "sessions")
      /\ Len(requests[1].resp.data.sessions) >= 1) =>
       /\ Has(agentState.agent_details, "sessions")
       /\ agentState.agent_details.sessions = requests[1].resp.data.sessions
  /\ (/\ Finished("changeSession")
      /\ pre[Main].op.sessionId.isNum
      /\ Has(pre[Main].st, "sessions")
      /\ pre[Main].op.sessionId.n \in 1..Len(pre[Main].st.sessions)) =>
       /\ requests # <<>>
       /\ requests[1].id = RefId(pre[Main].st.sessions[pre[Main].op.sessionId.n])

\* C35 as claimed: an initializeAgentState that fails leaves agentState as it
\* was before the call.
C35_Original ==
  (Finished("initializeAgentState") /\ Fails) =>
    /\ Selection(agentState) = Selection(pre[Main].st)
    /\ agentState = pre[Main].st

\* C36 as claimed: a changeSession that fails leaves session_id,
\* session_details, task_id and task_details as they were before the call.
C36_Original ==
  (Finished("changeSession") /\ Fails) =>
    /\ agentState.session_id = pre[Main].st.session_id
    /\ agentState.session_details = pre[Main].st.session_details
    /\ agentState.task_id = pre[Main].st.task_id
    /\ agentState.task_details = pre[Main].st.task_details

\* ------------------------------------------- a server that keeps switching
\* A testChat against a server that may answer every POST, the follow-up's
\* included, with a switchTask action: no bound on the nesting is taken from
\* the code, which has none (631-636, 892-905, 975-977).  The frames
\* beneath the innermost chat only wait for it, and the logs and the history
\* that the outer cycles have written are not read by the code before the
\* call ends; Fold drops both when a follow-up starts, so that a nesting
\* that does not end is a cycle of the model.
UnboundedChatResponses ==
  {[ok |-> FALSE],
   [ok |-> TRUE, data |-> [message |-> Text("reply"), notes |-> ""]],
   [ok |-> TRUE, data |-> [message |-> Text(""), notes |-> "",
                           action |-> FC("switchTask", [task_id |-> StrSel("T2")])]]}

Fold(s) ==
  LET top == Top(s)
      userMessage == UserMessage(top.message, 1)
  IN IF top.fn = "testChat" /\ top.pc = "post"
     THEN [s EXCEPT !.stack = <<[top EXCEPT !.rq = 1, !.userMessage = userMessage]>>,
                    !.req = <<[s.req[top.rq] EXCEPT !.history = <<userMessage>>]>>,
                    !.pub = <<>>, !.tr = <<>>, !.hist = <<>>, !.nid = 2]
     ELSE s

TestChatPostUnbounded(p) ==
  /\ AwaitsHttp(p, "testChat", "post")
  /\ \E resp \in UnboundedChatResponses :
       Continue(p, TestChatResume(Answered(Cur(p), resp), resp))

\* executeSwitchTask after changeTask: the follow-up testChat starts (899)
ExecuteSwitchTaskSettledFolded(p) ==
  /\ AwaitsCallee(p, "executeSwitchTask")
  /\ Continue(p, Fold(ExecuteSwitchTaskResume(Cur(p))))

\* what goes on by itself once a call is made: the transport answers and the
\* continuations run
ContinueNesting ==
  \/ TestChatPostUnbounded(Main) \/ TestChatSettled(Main)
  \/ HandleFunctionCallSettled(Main) \/ ApproveFunctionCallSettled(Main)
  \/ ExecuteSwitchTaskSettledFolded(Main) \/ ChangeTaskGet(Main)

NextNesting == TestChat(Main) \/ ContinueNesting

SpecNesting == Init /\ [][NextNesting]_vars /\ WF_vars(ContinueNesting)

\* C37 as claimed: when every transport call is answered, every testChat
\* that was called completes, whatever the answers are.
C37_Original == (stack[Main] # <<>>) ~> (stack[Main] = <<>>)

\* C38: with testChat calls overlapping, every model message of the history
\* stands directly after the user message of the chat cycle that built it,
\* and a call that has returned a plain reply has its reply directly after
\* its own user message.
C38_ReplyFollowsOwnMessage ==
  /\ \A j \in 1..Len(conversationHistory) :
       conversationHistory[j].role = "model" =>
         /\ j > 1
         /\ conversationHistory[j - 1].role = "user"
         /\ conversationHistory[j - 1].call = conversationHistory[j].call
  /\ \A p \in Procs :
       ChatReplied(p) =>
         /\ Len(conversationHistory) > PlaceOf(CallOf(p))
         /\ conversationHistory[PlaceOf(CallOf(p)) + 1] =
              AssistantMessage(requests[PostOf(CallOf(p))].resp.data, CallOf(p))

\* two testChat calls were in flight together, the second was answered
\* first, and both replies stand after their own user messages
C38_Witness ==
  /\ ChatReplied("main") /\ ChatReplied("other")
  /\ CallOf("main") < CallOf("other")
  /\ requests[PostOf(CallOf("main"))].at > requests[PostOf(CallOf("other"))].at
  /\ Len(conversationHistory) = 4
  /\ conversationHistory[2].role = "model" /\ conversationHistory[2].call = CallOf("other")
  /\ conversationHistory[4].role = "model" /\ conversationHistory[4].call = CallOf("main")

\* ------------------------------------------- manual handling (README 12-30)
\* The README registers a listener of functionCallReceived that approves the
\* call it receives: an async function, which the notifier runs up to its
\* first await and whose promise nobody awaits.  In Handle the listener does
\* nothing to the notifier; the call of approveFunctionCall it starts is the
\* call of the caller Manual.
Manual == "other"

Approver == Listener("approver")

\* agentFactory.addEventListener('functionCallReceived', async (data) => ...)
AddApprover(p) ==
  /\ Idle /\ ops = 0
  /\ events = <<>>
  /\ events' = EmitterOn(Cur(p).em, "functionCallReceived", Approver).events
  /\ UNCHANGED <<agentState, conversationHistory, autoSwitchTask, autoUseSkill,
                 autoSwitchSession, wrappers, invoked, stack, rv, published,
                 requests, steps, ret, pre, nextId, now, ops>>

Approving(em) ==
  /\ "functionCallReceived" \in DOMAIN em.events
  /\ \E i \in 1..Len(em.events["functionCallReceived"]) :
       em.events["functionCallReceived"][i] = Approver

\* handleFunctionCall (775-799) with the listener subscribed: emit runs the
\* listener, which enters approveFunctionCall (README 24) on a stack of its
\* own; then line 791 goes on in what the listener has left
HandleFunctionCallApproving(s, functionCall) ==
  LET s1 == Emit(s, [name |-> "functionCallReceived", functionCall |-> functionCall,
                     agentState |-> s.st])
      theirs == Apply(LAMBDA v : EnterApproveFunctionCall(
                                   [v EXCEPT !.stack = <<>>, !.rv = NoRv],
                                   functionCall),
                      s1)
      mine == Apply(LAMBDA v :
                      IF ShouldAutoExecuteFunctionCall(functionCall)
                      THEN EnterApproveFunctionCall(
                             Push([v EXCEPT !.stack = s1.stack, !.rv = s1.rv],
                                  [fn |-> "handleFunctionCall", pc |-> "awaitApprove"]),
                             functionCall)
                      ELSE Resolve([v EXCEPT !.stack = s1.stack, !.rv = s1.rv],
                                   [functionCall |-> functionCall,
                                    requiresApproval |-> TRUE]),
                    theirs)
  IN [mine |-> mine, theirs |-> theirs]

\* the segment of call p has also started the call of q
CommitBoth(p, q, functionCall, pair) ==
  \E r \in {pair} :
  LET s == r.mine
      t == r.theirs
      done(x) == x.stack = <<>> /\ x.rv.k # "none"
  IN
  /\ s.abort = <<>>
  /\ agentState' = s.st
  /\ events' = s.em.events
  /\ wrappers' = s.em.nw
  /\ invoked' = s.em.log
  /\ conversationHistory' = s.hist
  /\ published' = s.pub
  /\ requests' = s.req
  /\ steps' = s.tr
  /\ nextId' = s.nid
  /\ stack' = [stack EXCEPT ![p] = s.stack, ![q] = t.stack]
  /\ rv' = [rv EXCEPT ![p] = IF done(s) THEN NoRv ELSE s.rv,
                      ![q] = IF done(t) THEN NoRv ELSE t.rv]
  /\ ret' = [ret EXCEPT ![p] = IF done(s) THEN s.rv ELSE NoRv,
                        ![q] = IF done(t) THEN t.rv ELSE NoRv]
  /\ pre' = [pre EXCEPT ![q] = [op |-> [name |-> "approveFunctionCall",
                                        functionCall |-> functionCall],
                                st |-> agentState, hist |-> conversationHistory,
                                events |-> events]]
  /\ UNCHANGED <<autoSwitchTask, autoUseSkill, autoSwitchSession, now, ops>>

\* the responses to a POST here: only the chat the caller Main has started
\* is answered with an action
ManualResponses(p) ==
  IF p = Main /\ Len(stack[p]) = 1
  THEN ChatResponses(stack[p])
  ELSE {r \in ChatResponses(stack[p]) : ~r.ok \/ ~Has(r.data, "action")}

\* testChat, lines 624-636, the POST has answered
TestChatPostApproving(p) ==
  /\ AwaitsHttp(p, "testChat", "post")
  /\ \E resp \in ManualResponses(p) :
       IF resp.ok /\ Has(resp.data, "action") /\ Approving(Cur(p).em)
       THEN CommitBoth(p, Manual, resp.data.action,
              HandleFunctionCallApproving(
                SetPc(PushMessage(Answered(Cur(p), resp), Top(Cur(p)).userMessage),
                      "awaitHandle"),
                resp.data.action))
       ELSE Continue(p, TestChatResume(Answered(Cur(p), resp), resp))

\* testSkill, lines 706-727, the POST has answered
TestSkillPostPlain(p) ==
  /\ AwaitsHttp(p, "testSkill", "post")
  /\ \E resp \in ManualResponses(p) :
       Continue(p, TestSkillResume(Answered(Cur(p), resp), resp))

NextManual ==
  \/ AddApprover(Main)
  \/ InitializeAgentState(Main) \/ InitializeGetAgent(Main)
  \/ InitializeGetSession(Main) \/ InitializeGetTask(Main)
  \/ TestChat(Main)
  \/ \E p \in Procs :
       \/ TestChatPostApproving(p) \/ TestChatSettled(p)
       \/ TestSkillPostPlain(p) \/ TestSkillSettled(p)
       \/ HandleFunctionCallSettled(p) \/ ApproveFunctionCallSettled(p)
       \/ ExecuteSwitchTaskSettled(p) \/ ExecuteSwitchSessionSettled(p)
       \/ ExecuteUseSkillSettled(p) \/ SendFollowUpMessageSettled(p)
       \/ ChangeTaskGet(p)
       \/ ChangeSessionGet(p) \/ ChangeSessionGetTask(p)

SpecManual == Init /\ [][NextManual]_vars

\* how many events of a name the running operation has published
Published(name) ==
  Cardinality({i \in 1..Len(published) : published[i].name = name})

\* C39: a function call carried by one server response is executed at most
\* once: the operation publishes no more functionCallApproved events than
\* it has received function calls, for every setting of the auto-execution
\* flags, also with the README's approving listener subscribed.
C39_Original ==
  Published("functionCallApproved") <= Published("functionCallReceived")

\* ------------------------------------------------------ unsubscribing
\* the invocations a publish of the event makes itself when it starts in the
\* state reached (events.ts 72-87), nested publishes left out
InvokedBy(event, payload) ==
  SelectSeq(EmitterEmit([Called(Main).em EXCEPT !.log = <<>>], event, payload).log,
            LAMBDA x : x.nest = 0)

\* the subscribers of an event that do not run the function h
OthersThan(map, event, h) ==
  SelectSeq(Subscribers(map, event), LAMBDA l : l.h # h)

\* C40: once off(event, h) has returned, a publish of the event that starts
\* later does not invoke h, whether h had been subscribed with on, with once
\* or several times; the subscribers of other events and the other
\* subscribers of the event are as they were.
C40_Original ==
  Finished("off") =>
    LET event == pre[Main].op.event
        h == pre[Main].op.listener.h
    IN /\ \A payload \in Payloads :
            \A i \in 1..Len(InvokedBy(event, payload)) :
              InvokedBy(event, payload)[i].listener.h # h
       /\ \A e \in NotifierEvents \ {event} :
            Subscribers(events, e) = Subscribers(pre[Main].events, e)
       /\ OthersThan(events, event, h) = OthersThan(pre[Main].events, event, h)
====
